---- MODULE Spec2Model ----
(***************************************************************************)
(* Model of the difff extension: the unified-diff parser of                *)
(* DiffWebviewProvider (parseDiff), the comment store of CommentService,   *)
(* the overlay of stored comments on rendered diff lines (renderHunks),    *)
(* the working-directory diff text and counts of GitService, and the       *)
(* grouping of comments in CommentExplorerProvider.                        *)
(*                                                                         *)
(* Strings of the program are TLA+ strings.  A text is represented by the  *)
(* sequence text.split("\n") of its lines, which determines the text.      *)
(***************************************************************************)
EXTENDS Integers, Sequences, FiniteSets, TLC

VARIABLES
    lines,        \* parseDiff: the argument `lines`
    idx,          \* parseDiff: number of elements the for-of loop has consumed
    hunks,        \* parseDiff: `hunks`
    currentHunk,  \* parseDiff: `currentHunk` (null, or the open hunk)
    oldLineNum,   \* parseDiff: `oldLineNum`
    newLineNum,   \* parseDiff: `newLineNum`
    pcParse,      \* parseDiff: "loop" while iterating, "returned" after return
    store,        \* globalState["difff.comments"]: the stored DiffComment[]
    clock,        \* Date.now()
    mode,         \* DiffExplorerProvider.mode
    baseRef,      \* DiffExplorerProvider.baseRef
    compareRef,   \* DiffExplorerProvider.compareRef
    panelMode,    \* viewDiff: `mode` captured by the open panel, "none" without a panel
    fileDiffs,    \* viewDiff: `fileDiffs`, the panel's cached FileDiff[]
    overlay,      \* refreshWebviewContent: `commentsMap`, each entry with the
                  \* arguments of the getComments call that filled it
    html,         \* panel.webview.html: the rendered file sections
    commentKeys,  \* the root items of the comment explorer (getCommentKeys)
    returned,     \* the last call of a store or explorer method: its name,
                  \* its arguments and the value it returned
    title,        \* viewDiff: the `title` the open panel was created with
    posted,       \* the messages panel.webview.postMessage sent, in order
    running,      \* the message handlers of the panel suspended at an await
    templates,    \* globalState["difff.commentTemplates"]: the stored CommentTemplate[]
    activeTemplate \* globalState["difff.activeCommentTemplate"]

parseVars == <<lines, idx, hunks, currentHunk, oldLineNum, newLineNum, pcParse>>

panelVars ==
    <<store, clock, mode, baseRef, compareRef, panelMode, fileDiffs, overlay, html, commentKeys,
      title>>

serviceVars == <<returned, posted, running>>

templateVars == <<templates, activeTemplate>>

vars == <<parseVars, panelVars, serviceVars, templateVars>>

---------------------------------------------------------------------------
(* JavaScript values *)

\* `null` for currentHunk; an open hunk h is <<h>>.
null == <<>>

\* The empty string stored in oldLineNum / newLineNum of a line that has no
\* number on that side.  Counters are parseInt(\d+) or 0 and only grow, so
\* no counter value equals it.
Blank == -1

\* Truthiness of a line-number value: 0 and "" are falsy.
Truthy(v) == v /= Blank /\ v /= 0

\* a || b
JsOr(a, b) == IF Truthy(a) THEN a ELSE b

\* s.startsWith(p)
StartsWith(s, p) == Len(s) >= Len(p) /\ SubSeq(s, 1, Len(p)) = p

\* s.substring(1)
Substring1(s) == IF Len(s) <= 1 THEN "" ELSE SubSeq(s, 2, Len(s))

\* s.charAt(i - 1): the i-th character, "" outside the string
CharAt(s, i) == IF i >= 1 /\ i <= Len(s) THEN SubSeq(s, i, i) ELSE ""

\* does p occur in s at position i
OccursAt(s, i, p) == i >= 1 /\ i + Len(p) - 1 <= Len(s) /\ SubSeq(s, i, i + Len(p) - 1) = p

Digits == {"0", "1", "2", "3", "4", "5", "6", "7", "8", "9"}

DigitVal(ch) ==
    CASE ch = "0" -> 0 [] ch = "1" -> 1 [] ch = "2" -> 2 [] ch = "3" -> 3
      [] ch = "4" -> 4 [] ch = "5" -> 5 [] ch = "6" -> 6 [] ch = "7" -> 7
      [] ch = "8" -> 8 [] ch = "9" -> 9

\* length of the longest run of digits of s that starts at position i (\d*)
RECURSIVE DigitRun(_, _)
DigitRun(s, i) == IF CharAt(s, i) \in Digits THEN 1 + DigitRun(s, i + 1) ELSE 0

\* parseInt of a non-empty string of decimal digits
RECURSIVE ParseInt(_)
ParseInt(s) ==
    IF s = "" THEN 0
    ELSE 10 * ParseInt(SubSeq(s, 1, Len(s) - 1)) + DigitVal(CharAt(s, Len(s)))

---------------------------------------------------------------------------
(* parseDiff *)

\* the position after the longest run of digits that starts at i (\d*)
SkipDigits(s, i) == i + DigitRun(s, i)

\* a pattern without the optional comma
SkipComma_noComma(s, i) == i

\* the position after an optional comma at i (,?)
SkipComma(s, i) == IF CharAt(s, i) = "," THEN i + 1 ELSE i

\* the position after `(\d+),?\d*` tried at i.  Each quantifier is followed
\* by a character outside its class, so the greedy match is the only one.
SkipRange(s, i) == SkipDigits(s, SkipComma(s, SkipDigits(s, i)))

\* the number captured by (\d+) at i
Captured(s, i) == ParseInt(SubSeq(s, i, SkipDigits(s, i) - 1))

\* The regular expression /@@ -(\d+),?\d* \+(\d+),?\d* @@/ tried at position
\* i of the line: <<group 1, group 2>> as numbers, or null.
MatchAt(s, i) ==
    IF /\ OccursAt(s, i, "@@ -")
       /\ DigitRun(s, i + 4) >= 1
       /\ OccursAt(s, SkipRange(s, i + 4), " +")
       /\ DigitRun(s, SkipRange(s, i + 4) + 2) >= 1
       /\ OccursAt(s, SkipRange(s, SkipRange(s, i + 4) + 2), " @@")
    THEN <<Captured(s, i + 4), Captured(s, SkipRange(s, i + 4) + 2)>>
    ELSE null

\* line.match(/@@ -(\d+),?\d* \+(\d+),?\d* @@/): the leftmost match, or null
HeaderMatch(line) ==
    LET at == {i \in 1..Len(line) : MatchAt(line, i) /= null}
    IN  IF at = {} THEN null
        ELSE MatchAt(line, CHOOSE i \in at : \A j \in at : i <= j)

\* currentHunk.lines.push(l)
PushLine(h, l) == <<[header |-> h[1].header, lines |-> Append(h[1].lines, l)]>>

\* OpenHunk that never resets the counters from the header.
OpenHunk_keepCounters(st, line) ==
    [hunks       |-> IF st.currentHunk /= null
                     THEN Append(st.hunks, st.currentHunk[1])
                     ELSE st.hunks,
     oldLineNum  |-> st.oldLineNum,
     newLineNum  |-> st.newLineNum,
     currentHunk |-> <<[header |-> line, lines |-> <<>>]>>]

\* OpenHunk that gives up on a header that does not match: the open hunk is
\* dropped and the counters restart at 0.
OpenHunk_abortOnMismatch(st, line) ==
    LET match == HeaderMatch(line)
    IN  IF match = null
        THEN [hunks |-> st.hunks, oldLineNum |-> 0, newLineNum |-> 0,
              currentHunk |-> <<[header |-> line, lines |-> <<>>]>>]
        ELSE [hunks       |-> IF st.currentHunk /= null
                              THEN Append(st.hunks, st.currentHunk[1])
                              ELSE st.hunks,
              oldLineNum  |-> match[1],
              newLineNum  |-> match[2],
              currentHunk |-> <<[header |-> line, lines |-> <<>>]>>]

\* The branch for a line that starts with "@@": close the open hunk, reset
\* the counters when the header matches, open a new hunk.
OpenHunk(st, line) ==
    LET match == HeaderMatch(line)
    IN  [hunks       |-> IF st.currentHunk /= null
                         THEN Append(st.hunks, st.currentHunk[1])
                         ELSE st.hunks,
         oldLineNum  |-> IF match /= null THEN match[1] ELSE st.oldLineNum,
         newLineNum  |-> IF match /= null THEN match[2] ELSE st.newLineNum,
         currentHunk |-> <<[header |-> line, lines |-> <<>>]>>]

\* AdditionLine with a pre-increment (++newLineNum).
AdditionLine_preIncrement(st, line) ==
    [st EXCEPT !.currentHunk = PushLine(@,
                    [type |-> "addition", content |-> Substring1(line),
                     newLineNum |-> st.newLineNum + 1, oldLineNum |-> Blank]),
               !.newLineNum = @ + 1]

\* The branch for a line that starts with "+"
AdditionLine(st, line) ==
    [st EXCEPT !.currentHunk = PushLine(@,
                    [type |-> "addition", content |-> Substring1(line),
                     newLineNum |-> st.newLineNum, oldLineNum |-> Blank]),
               !.newLineNum = @ + 1]

\* DeletionLine that also records the new-side counter.
DeletionLine_bothNumbers(st, line) ==
    [st EXCEPT !.currentHunk = PushLine(@,
                    [type |-> "deletion", content |-> Substring1(line),
                     oldLineNum |-> st.oldLineNum, newLineNum |-> st.newLineNum]),
               !.oldLineNum = @ + 1]

\* The branch for a line that starts with "-"
DeletionLine(st, line) ==
    [st EXCEPT !.currentHunk = PushLine(@,
                    [type |-> "deletion", content |-> Substring1(line),
                     oldLineNum |-> st.oldLineNum, newLineNum |-> Blank]),
               !.oldLineNum = @ + 1]

\* The branch for a line that starts with " " or is empty
ContextLine(st, line) ==
    [st EXCEPT !.currentHunk = PushLine(@,
                    [type |-> "context", content |-> Substring1(line),
                     oldLineNum |-> st.oldLineNum,
                     newLineNum |-> st.newLineNum]),
               !.oldLineNum = @ + 1,
               !.newLineNum = @ + 1]

\* the loop body with a last branch that counts an unrecognised line of an
\* open hunk on both sides
ParseLine_countsUnrecognised(st, line) ==
    IF StartsWith(line, "@@") THEN OpenHunk(st, line)
    ELSE IF st.currentHunk /= null THEN
        IF StartsWith(line, "+") THEN AdditionLine(st, line)
        ELSE IF StartsWith(line, "-") THEN DeletionLine(st, line)
        ELSE IF StartsWith(line, " ") \/ line = "" THEN ContextLine(st, line)
        ELSE [st EXCEPT !.oldLineNum = @ + 1, !.newLineNum = @ + 1]
    ELSE st

\* One iteration of the for-of loop of parseDiff on the parser state
\* st = [hunks, currentHunk, oldLineNum, newLineNum].
ParseLine(st, line) ==
    IF StartsWith(line, "@@") THEN OpenHunk(st, line)
    ELSE IF st.currentHunk /= null THEN
        IF StartsWith(line, "+") THEN AdditionLine(st, line)
        ELSE IF StartsWith(line, "-") THEN DeletionLine(st, line)
        ELSE IF StartsWith(line, " ") \/ line = "" THEN ContextLine(st, line)
        ELSE st
    ELSE st

\* The locals of parseDiff before the loop.
ParseStart == [hunks |-> <<>>, currentHunk |-> null, oldLineNum |-> 0, newLineNum |-> 0]

\* the return without the push of the open hunk
ParseReturn_dropsOpenHunk(st) == st.hunks

\* The statements after the loop: push the open hunk, return hunks.
ParseReturn(st) ==
    IF st.currentHunk /= null THEN Append(st.hunks, st.currentHunk[1]) ELSE st.hunks

\* The parser state after the loop has consumed all of ls.
RECURSIVE ParseState(_)
ParseState(ls) ==
    IF ls = <<>> THEN ParseStart
    ELSE ParseLine(ParseState(SubSeq(ls, 1, Len(ls) - 1)), ls[Len(ls)])

\* parseDiff(lines)
ParseDiff(ls) == ParseReturn(ParseState(ls))

---------------------------------------------------------------------------
(* Texts *)

\* the empty string
EmptyText == <<"">>

\* the string "\n"
Newline == <<"", "">>

\* t + u
Concat(t, u) ==
    SubSeq(t, 1, Len(t) - 1) \o <<t[Len(t)] \o u[1]>> \o SubSeq(u, 2, Len(u))

\* s consists of white space only
RECURSIVE IsWhiteSpace(_)
IsWhiteSpace(s) ==
    s = "" \/ (SubSeq(s, 1, 1) \in {" ", "\t"} /\ IsWhiteSpace(SubSeq(s, 2, Len(s))))

\* t.trim() is the empty string
TrimsToEmpty(t) == \A k \in 1..Len(t) : IsWhiteSpace(t[k])

---------------------------------------------------------------------------
(* GitService *)

\* The working tree of the repository as git reports it for the tracked
\* file TrackedPath: the text of `git diff --staged -- path`, the text of
\* `git diff -- path`, and whether `git status --short` also lists an
\* untracked file.
TrackedPath == "f"
UntrackedPath == "g"

\* getWorkingDirectoryFileDiff(filePath) on the working tree wt
GetWorkingDirectoryFileDiff(wt, filePath) ==
    IF filePath /= TrackedPath THEN EmptyText
    ELSE IF TrimsToEmpty(wt.staged) THEN
        IF TrimsToEmpty(wt.unstaged) THEN EmptyText ELSE wt.unstaged
    ELSE
        IF TrimsToEmpty(wt.unstaged) THEN wt.staged
        ELSE Concat(Concat(wt.staged, Newline), wt.unstaged)

\* the output of `git status --short` for wt, as text
ShortStatus(wt) ==
    LET x == IF TrimsToEmpty(wt.staged) THEN " " ELSE "M"
        y == IF TrimsToEmpty(wt.unstaged) THEN " " ELSE "M"
        tracked == IF x = " " /\ y = " " THEN <<>>
                   ELSE <<x \o y \o " " \o TrackedPath>>
        untracked == IF wt.untracked THEN <<"?? " \o UntrackedPath>> ELSE <<>>
    IN  tracked \o untracked \o <<"">>

\* parseShortStatus(status)
ParseShortStatus(status) ==
    LET stagedStatus == SubSeq(status, 1, 1)
        workingTreeStatus == SubSeq(status, 2, 2)
    IN  IF stagedStatus = "?" /\ workingTreeStatus = "?" THEN "untracked"
        ELSE IF stagedStatus = "A" \/ workingTreeStatus = "A" THEN "added"
        ELSE IF stagedStatus = "D" \/ workingTreeStatus = "D" THEN "deleted"
        ELSE IF stagedStatus = "R" \/ workingTreeStatus = "R" THEN "renamed"
        ELSE IF stagedStatus = "M" \/ workingTreeStatus = "M" THEN "modified"
        ELSE IF stagedStatus = "C" \/ workingTreeStatus = "C" THEN "copied"
        ELSE "modified"

\* the number of elements of diffLines that start with marker but not with
\* the marker three times (the counting loop of getWorkingDirectoryFiles)
CountMarked(diffLines, marker) ==
    Len(SelectSeq(diffLines,
                  LAMBDA l : StartsWith(l, marker)
                             /\ ~StartsWith(l, marker \o marker \o marker)))

\* the entry getWorkingDirectoryFiles pushes for one line of the status
StatusEntry(wt, line) ==
    LET filePath == SubSeq(line, 4, Len(line))
        fileStatus == ParseShortStatus(SubSeq(line, 1, 2))
        fileDiff == GetWorkingDirectoryFileDiff(wt, filePath)
    IN  [path |-> filePath,
         status |-> fileStatus,
         additions |-> IF fileStatus /= "untracked" THEN CountMarked(fileDiff, "+") ELSE 0,
         deletions |-> IF fileStatus /= "untracked" THEN CountMarked(fileDiff, "-") ELSE 0]

\* getWorkingDirectoryFiles()
GetWorkingDirectoryFiles(wt) ==
    LET statusLines == SelectSeq(ShortStatus(wt),
                                 LAMBDA l : ~IsWhiteSpace(l) /\ Len(l) >= 3)
    IN  [k \in 1..Len(statusLines) |-> StatusEntry(wt, statusLines[k])]

\* The fileDiffs viewDiff and refreshWebviewContent(true) build in working
\* mode.
WorkingFileDiffs(wt) ==
    LET files == GetWorkingDirectoryFiles(wt)
    IN  [k \in 1..Len(files) |->
            [path |-> files[k].path,
             content |-> GetWorkingDirectoryFileDiff(wt, files[k].path),
             additions |-> files[k].additions,
             deletions |-> files[k].deletions]]

\* The fileDiffs they build in branch mode from what git reports for the
\* two refs: bd is the sequence of [path, content, insertions, deletions]
\* of getDiffFiles and getFileDiff.
BranchFileDiffs(bd) ==
    [k \in 1..Len(bd) |->
        [path |-> bd[k].path,
         content |-> bd[k].content,
         additions |-> bd[k].insertions,
         deletions |-> bd[k].deletions]]

\* getCurrentCommitHash(): the hash of the latest commit, or "HEAD" when the
\* log has no latest commit or git fails
HeadHash == "4f2a9c1"
CommitHashes == {HeadHash, "HEAD"}

\* s.indexOf(p) + 1: the first position p occurs at in s, 0 for none
IndexOf(s, p) ==
    IF \E i \in 1..Len(s) : OccursAt(s, i, p)
    THEN CHOOSE i \in 1..Len(s) : OccursAt(s, i, p) /\ \A j \in 1..(i - 1) : ~OccursAt(s, j, p)
    ELSE 0

\* s.replace(p, "") with a string p: the first occurrence is removed
RemoveFirst(s, p) ==
    IF IndexOf(s, p) = 0 THEN s
    ELSE SubSeq(s, 1, IndexOf(s, p) - 1) \o SubSeq(s, IndexOf(s, p) + Len(p), Len(s))

\* refs.includes(label), on the entries collected so far
Includes(refs, label) == \E k \in 1..Len(refs) : refs[k].label = label

\* the remote branches getAllRefs adds to refs. An entry is the string
\* offered for selection (label) with the git ref it was produced for
\* (object)
RECURSIVE AddRemoteBranches(_, _)
AddRemoteBranches(refs, branches) ==
    IF branches = <<>> THEN refs
    ELSE AddRemoteBranches(
             IF /\ StartsWith(Head(branches), "remotes/")
                /\ ~Includes(refs, RemoveFirst(RemoveFirst(Head(branches), "remotes/origin/"),
                                               "remotes/"))
                /\ RemoveFirst(RemoveFirst(Head(branches), "remotes/origin/"), "remotes/") /= "HEAD"
             THEN Append(refs, [label |-> "origin/" \o RemoveFirst(RemoveFirst(Head(branches),
                                                                    "remotes/origin/"), "remotes/"),
                                object |-> "refs/" \o Head(branches)])
             ELSE refs,
             Tail(branches))

\* [...new Set(refs)]: the first entry of every label
RECURSIVE UniqueRefs(_)
UniqueRefs(refs) ==
    IF refs = <<>> THEN <<>>
    ELSE IF Includes(UniqueRefs(SubSeq(refs, 1, Len(refs) - 1)), refs[Len(refs)].label)
         THEN UniqueRefs(SubSeq(refs, 1, Len(refs) - 1))
         ELSE Append(UniqueRefs(SubSeq(refs, 1, Len(refs) - 1)), refs[Len(refs)])

\* getAllRefs() on a repository: repo.branches are the keys of
\* `git branch -a`, repo.tags the tags, repo.commits the log (hash and
\* one-line message, newest first)
GetAllRefs(repo) ==
    UniqueRefs(
        AddRemoteBranches(
            <<[label |-> "HEAD", object |-> "HEAD"]>>
            \o [k \in 1..Len(SelectSeq(repo.branches, LAMBDA b : ~StartsWith(b, "remotes/"))) |->
                   [label |-> SelectSeq(repo.branches, LAMBDA b : ~StartsWith(b, "remotes/"))[k],
                    object |-> "refs/heads/"
                       \o SelectSeq(repo.branches, LAMBDA b : ~StartsWith(b, "remotes/"))[k]]],
            repo.branches)
        \o [k \in 1..Len(repo.tags) |->
               [label |-> "tag/" \o repo.tags[k], object |-> "refs/tags/" \o repo.tags[k]]]
        \o [k \in 1..Len(repo.commits) |->
               [label |-> SubSeq(repo.commits[k].hash, 1, 7) \o " - "
                             \o SubSeq(repo.commits[k].message, 1,
                                       IF Len(repo.commits[k].message) < 50
                                       THEN Len(repo.commits[k].message) ELSE 50),
                object |-> repo.commits[k].hash]])

\* parseRef(ref)
ParseRef(ref) ==
    IF IndexOf(ref, " - ") /= 0 THEN SubSeq(ref, 1, IndexOf(ref, " - ") - 1)
    ELSE IF StartsWith(ref, "tag/") THEN ref
    ELSE ref

\* the refs of the repository
RefsOf(repo) ==
    {IF StartsWith(repo.branches[k], "remotes/") THEN "refs/" \o repo.branches[k]
     ELSE "refs/heads/" \o repo.branches[k] : k \in 1..Len(repo.branches)}
    \cup {"refs/tags/" \o repo.tags[k] : k \in 1..Len(repo.tags)}

\* what git takes the revision `name` of `${base}...${compare}` for: HEAD,
\* the first of refs/<name>, refs/tags/<name>, refs/heads/<name>,
\* refs/remotes/<name> that exists, a commit whose hash begins with the
\* name, or nothing ("": unknown revision)
ResolveRevision(repo, name) ==
    IF name = "HEAD" THEN "HEAD"
    ELSE IF "refs/" \o name \in RefsOf(repo) THEN "refs/" \o name
    ELSE IF "refs/tags/" \o name \in RefsOf(repo) THEN "refs/tags/" \o name
    ELSE IF "refs/heads/" \o name \in RefsOf(repo) THEN "refs/heads/" \o name
    ELSE IF "refs/remotes/" \o name \in RefsOf(repo) THEN "refs/remotes/" \o name
    ELSE IF \E k \in 1..Len(repo.commits) : Len(name) >= 4 /\ StartsWith(repo.commits[k].hash, name)
         THEN repo.commits[CHOOSE k \in 1..Len(repo.commits) :
                               StartsWith(repo.commits[k].hash, name)].hash
    ELSE ""

---------------------------------------------------------------------------
(* CommentService *)

\* `undefined` as the value of an optional ref
undefined == "<undefined>"

\* no method has been called yet
NoCall == [op |-> "none"]

\* truthiness of a ref
IsSet(ref) == ref /= undefined /\ ref /= ""

\* getComments that matches the file and the base ref only
GetComments_ignoringCompareRef(all, filePath, base, compare) ==
    SelectSeq(all, LAMBDA comment :
                      /\ comment.filePath = filePath
                      /\ comment.baseRef = base)

\* getComments(filePath, baseRef, compareRef)
GetComments(all, filePath, base, compare) ==
    SelectSeq(all, LAMBDA comment :
                      /\ comment.filePath = filePath
                      /\ comment.baseRef = base
                      /\ comment.compareRef = compare)

\* generateId(): `comment_${Date.now()}_${random}` as the pair of its parts
GenerateId(now, random) == <<now, random>>

\* getCurrentUser()
CurrentUser == "dev"

\* addComment that puts the new comment first
AddComment_atFront(all, filePath, lineNumber, lineType, content, base, compare, now, random) ==
    <<[id |-> GenerateId(now, random),
       filePath |-> filePath,
       lineNumber |-> lineNumber,
       lineType |-> lineType,
       content |-> content,
       author |-> CurrentUser,
       timestamp |-> now,
       baseRef |-> base,
       compareRef |-> compare]>> \o all

\* addComment that stores the comment without its diff context
AddComment_withoutRefs(all, filePath, lineNumber, lineType, content, base, compare, now, random) ==
    Append(all, [id |-> GenerateId(now, random),
                 filePath |-> filePath,
                 lineNumber |-> lineNumber,
                 lineType |-> lineType,
                 content |-> content,
                 author |-> CurrentUser,
                 timestamp |-> now,
                 baseRef |-> undefined,
                 compareRef |-> undefined])

\* addComment(...): the new stored sequence
AddComment(all, filePath, lineNumber, lineType, content, base, compare, now, random) ==
    Append(all, [id |-> GenerateId(now, random),
                 filePath |-> filePath,
                 lineNumber |-> lineNumber,
                 lineType |-> lineType,
                 content |-> content,
                 author |-> CurrentUser,
                 timestamp |-> now,
                 baseRef |-> base,
                 compareRef |-> compare])

\* findIndex((c) => c.id === id): the first index, 0 for -1
FindIndex(all, id) ==
    IF \E k \in 1..Len(all) : all[k].id = id
    THEN CHOOSE k \in 1..Len(all) :
            all[k].id = id /\ \A j \in 1..(k - 1) : all[j].id /= id
    ELSE 0

\* updateComment that stores the edited comment behind the others
UpdateComment_movesToEnd(all, id, content, now) ==
    IF FindIndex(all, id) = 0 THEN all
    ELSE Append(SelectSeq(all, LAMBDA c : c /= all[FindIndex(all, id)]),
                [all[FindIndex(all, id)] EXCEPT !.content = content, !.timestamp = now])

\* updateComment(id, content): the new stored sequence
UpdateComment(all, id, content, now) ==
    IF FindIndex(all, id) = 0 THEN all
    ELSE [all EXCEPT ![FindIndex(all, id)].content = content,
                     ![FindIndex(all, id)].timestamp = now]

\* deleteComment that removes the comment stored last
DeleteComment_removesLast(all, id) ==
    IF \E k \in 1..Len(all) : all[k].id = id THEN SubSeq(all, 1, Len(all) - 1) ELSE all

\* deleteComment(id): the new stored sequence
DeleteComment(all, id) ==
    SelectSeq(all, LAMBDA c : c.id /= id)

---------------------------------------------------------------------------
(* renderFileDiff and renderHunks *)

\* const lineNumber = line.newLineNum || line.oldLineNum
LineNumberOf(line) == JsOr(line.newLineNum, line.oldLineNum)

\* a thread that also takes the comments anchored one line away
LineComments_withinOneLine(comments, line) ==
    SelectSeq(comments, LAMBDA comment :
                           /\ comment.lineNumber - LineNumberOf(line) \in {-1, 0, 1}
                           /\ comment.lineType = line.type)

\* the comments renderHunks puts in the thread under a line
LineComments(comments, line) ==
    SelectSeq(comments, LAMBDA comment :
                           /\ comment.lineNumber = LineNumberOf(line)
                           /\ comment.lineType = line.type)

\* the <tr> of a line, with its add-comment button and its thread
RenderLine(line, comments) ==
    [type |-> line.type,
     lineNumber |-> LineNumberOf(line),
     button |-> Truthy(LineNumberOf(line)),
     oldLineNum |-> line.oldLineNum,
     newLineNum |-> line.newLineNum,
     content |-> line.content,
     thread |-> LineComments(comments, line)]

\* renderHunks(hunks, filePath, comments)
RenderHunks(hs, comments) ==
    [k \in 1..Len(hs) |->
        [header |-> hs[k].header,
         rows |-> [j \in 1..Len(hs[k].lines) |-> RenderLine(hs[k].lines[j], comments)]]]

\* renderFileDiff(file, comments)
RenderFileDiff(file, comments) ==
    [path |-> file.path,
     additions |-> file.additions,
     deletions |-> file.deletions,
     hunks |-> RenderHunks(ParseDiff(file.content), comments)]

\* countAdditions(hunks), countDeletions(hunks)
RECURSIVE CountType(_, _)
CountType(hs, type) ==
    IF hs = <<>> THEN 0
    ELSE Len(SelectSeq(hs[1].lines, LAMBDA l : l.type = type)) + CountType(Tail(hs), type)

CountAdditions(hs) == CountType(hs, "addition")
CountDeletions(hs) == CountType(hs, "deletion")

\* The commentsMap refreshWebviewContent builds: one getComments call per
\* file, with the current commit hash and "working" in a working-directory
\* panel and with the explorer's refs in a branch panel.  hash is what
\* getCurrentCommitHash returns during the refresh.
CommentsMap(files, all, pmode, hash, base, compare) ==
    [k \in 1..Len(files) |->
        LET b == IF pmode = "working" THEN hash ELSE base
            c == IF pmode = "working" THEN "working" ELSE compare
        IN  [filePath |-> files[k].path,
             baseRef |-> b,
             compareRef |-> c,
             comments |-> GetComments(all, files[k].path, b, c)]]

\* comments.get(path) || []
MapGet(map, path) ==
    IF \E k \in 1..Len(map) : map[k].filePath = path
    THEN map[CHOOSE k \in 1..Len(map) :
                 map[k].filePath = path
                 /\ \A j \in (k + 1)..Len(map) : map[j].filePath /= path].comments
    ELSE <<>>

\* getAllDiffsContent / getWorkingDirectoryContent: every file rendered with
\* its entry of the comments map
RenderPanel(files, map) ==
    [k \in 1..Len(files) |-> RenderFileDiff(files[k], MapGet(map, files[k].path))]

---------------------------------------------------------------------------
(* CommentExplorerProvider *)

\* `${ref}` in a template literal
Template(ref) == IF ref = undefined THEN "undefined" ELSE ref

\* generateKeyFromComment without the Working Directory case
GenerateKeyFromComment_noWorkingCase(comment) ==
    IF IsSet(comment.baseRef) /\ IsSet(comment.compareRef)
    THEN Template(comment.baseRef) \o " → " \o Template(comment.compareRef)
    ELSE IF IsSet(comment.baseRef) THEN comment.baseRef
    ELSE IF IsSet(comment.compareRef) THEN comment.compareRef
    ELSE "Unknown"

\* generateKeyFromComment(comment)
GenerateKeyFromComment(comment) ==
    IF comment.compareRef = "working"
    THEN Template(comment.baseRef) \o " → Working Directory"
    ELSE IF IsSet(comment.baseRef) /\ IsSet(comment.compareRef)
    THEN Template(comment.baseRef) \o " → " \o Template(comment.compareRef)
    ELSE IF IsSet(comment.baseRef) THEN comment.baseRef
    ELSE IF IsSet(comment.compareRef) THEN comment.compareRef
    ELSE "Unknown"

\* keyMap after the grouping loop of getCommentKeys over all: the entry of
\* a key holds the count and the refs of the first comment with that key.
RECURSIVE KeyMap(_)
KeyMap(all) ==
    IF all = <<>> THEN {}
    ELSE LET before == KeyMap(SubSeq(all, 1, Len(all) - 1))
             comment == all[Len(all)]
             key == GenerateKeyFromComment(comment)
         IN  IF \E e \in before : e.key = key
             THEN {IF e.key = key THEN [e EXCEPT !.commentCount = @ + 1] ELSE e :
                       e \in before}
             ELSE before \cup {[key |-> key, commentCount |-> 1,
                                baseRef |-> comment.baseRef,
                                compareRef |-> comment.compareRef]}

\* getCommentKeys(): the CommentKey items.  Their order, a localeCompare
\* sort by key, is left out: the items are kept as a set.
GetCommentKeys(all) == KeyMap(all)

\* a.filePath.localeCompare(b.filePath) < 0 on the paths of the model
PathBefore(p, q) == p = TrackedPath /\ q = UntrackedPath

\* the comparator of the sorts in getCommentsForKey and
\* copyCommentsWithTemplate is negative: a goes before b
SortsBefore(a, b) ==
    IF a.filePath /= b.filePath THEN PathBefore(a.filePath, b.filePath)
    ELSE a.lineNumber < b.lineNumber

\* sorted with comment put after the elements it does not go before
InsertSorted(sorted, comment) ==
    LET place == IF \E k \in 1..Len(sorted) : SortsBefore(comment, sorted[k])
                 THEN CHOOSE k \in 1..Len(sorted) :
                         /\ SortsBefore(comment, sorted[k])
                         /\ \A j \in 1..(k - 1) : ~SortsBefore(comment, sorted[j])
                 ELSE Len(sorted) + 1
    IN  SubSeq(sorted, 1, place - 1) \o <<comment>> \o SubSeq(sorted, place, Len(sorted))

\* Array.prototype.sort with that comparator (a stable sort) on a copy
RECURSIVE SortComments(_)
SortComments(comments) ==
    IF comments = <<>> THEN <<>>
    ELSE InsertSorted(SortComments(SubSeq(comments, 1, Len(comments) - 1)),
                      comments[Len(comments)])

\* the filter of getCommentsForKey and copyCommentsWithTemplate
InContext(all, base, compare) ==
    SelectSeq(all, LAMBDA comment : comment.baseRef = base /\ comment.compareRef = compare)

\* getCommentsForKey that sorts the stored array itself
GetCommentsForKey_sortsStored(all, key) ==
    [stored |-> SortComments(all),
     value |-> SortComments(InContext(all, key.baseRef, key.compareRef))]

\* getCommentsForKey(key): the comments of the items it returns, and the
\* stored array after the call (filter makes the copy that is sorted)
GetCommentsForKey(all, key) ==
    [stored |-> all,
     value |-> SortComments(InContext(all, key.baseRef, key.compareRef))]

\* removeAllCommentsForKey that matches the base ref only
RemoveAllCommentsForKey_byBaseRef(all, key) ==
    SelectSeq(all, LAMBDA comment : ~(comment.baseRef = key.baseRef))

\* removeAllCommentsForKey(key): the sequence it saves
RemoveAllCommentsForKey(all, key) ==
    SelectSeq(all, LAMBDA comment :
                      ~(comment.baseRef = key.baseRef /\ comment.compareRef = key.compareRef))

---------------------------------------------------------------------------
(* CommentTemplateProvider *)

\* Number.prototype.toString() of a line number
RECURSIVE NumberToString(_)
NumberToString(n) ==
    IF n < 10 THEN SubSeq("0123456789", n + 1, n + 1)
    ELSE NumberToString(n \div 10) \o SubSeq("0123456789", (n % 10) + 1, (n % 10) + 1)

\* the templates initializeDefaultTemplates saves when none is stored; it
\* then calls setActiveTemplate("simple"). The backquotes of the markdown
\* and github formats are written ' here
DefaultTemplates ==
    <<[id |-> "simple", name |-> "Simple Format",
       template |-> "@{{filePath}} L{{lineNumber}}: {{content}}", isActive |-> TRUE],
      [id |-> "markdown", name |-> "Markdown Format",
       template |-> "- **File**: '{{filePath}}'\n  - **Line {{lineNumber}}**: {{content}}",
       isActive |-> FALSE],
      [id |-> "github", name |-> "GitHub Review Format",
       template |-> "'''suggestion\n{{filePath}}:{{lineNumber}} - {{content}}\n'''",
       isActive |-> FALSE],
      [id |-> "jira", name |-> "JIRA Format",
       template |-> "{code:title={{filePath}}|line={{lineNumber}}}\n{{content}}\n{code}",
       isActive |-> FALSE],
      [id |-> "detailed", name |-> "Detailed Format",
       template |-> "File: {{filePath}}\nLine: {{lineNumber}} ({{lineType}})\nAuthor: {{author}}\n"
                       \o "Time: {{timestamp}}\nComment: {{content}}\n---",
       isActive |-> FALSE]>>

\* addTemplate(name, template) at Date.now() = now
AddTemplate(all, name, template, now) ==
    Append(all, [id |-> "custom_" \o NumberToString(now), name |-> name, template |-> template,
                 isActive |-> FALSE])

\* editTemplate(id, name, template): the first template with the id
EditTemplate(all, id, name, template) ==
    [k \in 1..Len(all) |->
        IF all[k].id = id /\ \A j \in 1..(k - 1) : all[j].id /= id
        THEN [all[k] EXCEPT !.name = name, !.template = template]
        ELSE all[k]]

\* deleteTemplate(id)
DeleteTemplate(all, id) == SelectSeq(all, LAMBDA t : t.id /= id)

\* setActiveTemplate(id): the templates it saves
SetActiveTemplate(all, id) ==
    [k \in 1..Len(all) |-> [all[k] EXCEPT !.isActive = (all[k].id = id)]]

\* getActiveTemplate(): templates.find((t) => t.isActive), <<t>> for a
\* template t and <<>> for undefined
GetActiveTemplate(all) ==
    IF \E k \in 1..Len(all) : all[k].isActive
    THEN <<all[CHOOSE k \in 1..Len(all) :
                   all[k].isActive /\ \A j \in 1..(k - 1) : ~all[j].isActive]>>
    ELSE <<>>

\* s.replace(new RegExp(p, "g"), r) for a pattern without special characters
RECURSIVE ReplaceAll(_, _, _)
ReplaceAll(s, p, r) ==
    IF IndexOf(s, p) = 0 THEN s
    ELSE SubSeq(s, 1, IndexOf(s, p) - 1) \o r
            \o ReplaceAll(SubSeq(s, IndexOf(s, p) + Len(p), Len(s)), p, r)

\* new Date(ms).toLocaleString() in en-US and UTC, within the first second
\* of the epoch, where the clock of the model stays
ToLocaleString(ms) == "1/1/1970, 12:00:00 AM"

\* formatComment(comment) with the stored templates
FormatCommentWith(all, comment) ==
    IF GetActiveTemplate(all) = <<>>
    THEN "@" \o comment.filePath \o " " \o NumberToString(comment.lineNumber) \o " "
            \o comment.content
    ELSE ReplaceAll(ReplaceAll(ReplaceAll(ReplaceAll(ReplaceAll(ReplaceAll(ReplaceAll(ReplaceAll(
             GetActiveTemplate(all)[1].template,
             "{{filePath}}", comment.filePath),
             "{{lineNumber}}", NumberToString(comment.lineNumber)),
             "{{lineType}}", comment.lineType),
             "{{content}}", comment.content),
             "{{author}}", comment.author),
             "{{timestamp}}", ToLocaleString(comment.timestamp)),
             "{{baseRef}}", IF IsSet(comment.baseRef) THEN comment.baseRef ELSE ""),
             "{{compareRef}}", IF IsSet(comment.compareRef) THEN comment.compareRef ELSE "")

\* formatComment(comment) with the default active template "simple":
\* "@{{filePath}} L{{lineNumber}}: {{content}}"
FormatComment(comment) ==
    "@" \o comment.filePath \o " L" \o NumberToString(comment.lineNumber)
        \o ": " \o comment.content

\* copyCommentsWithTemplate(baseRef, compareRef): the formatted comments it
\* joins with blank lines (none: it returns ""), and the stored array after
\* the call
CopyCommentsWithTemplate(all, base, compare) ==
    LET sorted == SortComments(InContext(all, base, compare))
    IN  [stored |-> all,
         value |-> [k \in 1..Len(sorted) |-> FormatComment(sorted[k])]]

---------------------------------------------------------------------------
(* Inputs of the parser *)

MaxLines == 4

ParseAlphabet ==
    {"@@ -1,2 +1,3 @@", "@@ -5 +7 @@", "@@ bad @@",
     " line1", "-line2", "+line2-modified", "", "\\ No newline at end of file"}

Scenario7 == <<"@@ -1,2 +1,3 @@", " line1", "-line2", "+line2-modified", "+line3-new">>

ParseInputs ==
    UNION {[1..n -> ParseAlphabet] : n \in 0..MaxLines} \cup {Scenario7}

---------------------------------------------------------------------------
(* The parser as a state machine: one action per branch of the loop body *)

ParserState ==
    [hunks |-> hunks, currentHunk |-> currentHunk,
     oldLineNum |-> oldLineNum, newLineNum |-> newLineNum]

InitParse ==
    /\ lines \in ParseInputs
    /\ idx = 0
    /\ hunks = ParseStart.hunks
    /\ currentHunk = ParseStart.currentHunk
    /\ oldLineNum = ParseStart.oldLineNum
    /\ newLineNum = ParseStart.newLineNum
    /\ pcParse = "loop"
    /\ store = <<>>
    /\ clock = 0
    /\ mode = "branch"
    /\ baseRef = ""
    /\ compareRef = ""
    /\ panelMode = "none"
    /\ fileDiffs = <<>>
    /\ overlay = <<>>
    /\ html = <<>>
    /\ commentKeys = {}
    /\ returned = NoCall
    /\ title = ""
    /\ posted = <<>>
    /\ running = {}
    /\ templates = DefaultTemplates
    /\ activeTemplate = "simple"

\* the loop body on the next element
Iterate ==
    /\ pcParse = "loop"
    /\ idx < Len(lines)
    /\ LET st == ParseLine(ParserState, lines[idx + 1])
       IN  /\ hunks' = st.hunks
           /\ currentHunk' = st.currentHunk
           /\ oldLineNum' = st.oldLineNum
           /\ newLineNum' = st.newLineNum
    /\ idx' = idx + 1
    /\ UNCHANGED <<lines, pcParse, panelVars, serviceVars, templateVars>>

NextLine == lines[idx + 1]

StartHunk == idx < Len(lines) /\ StartsWith(NextLine, "@@") /\ Iterate

PushAddition ==
    /\ idx < Len(lines) /\ ~StartsWith(NextLine, "@@") /\ currentHunk /= null
    /\ StartsWith(NextLine, "+")
    /\ Iterate

PushDeletion ==
    /\ idx < Len(lines) /\ ~StartsWith(NextLine, "@@") /\ currentHunk /= null
    /\ StartsWith(NextLine, "-")
    /\ Iterate

PushContext ==
    /\ idx < Len(lines) /\ ~StartsWith(NextLine, "@@") /\ currentHunk /= null
    /\ StartsWith(NextLine, " ") \/ NextLine = ""
    /\ Iterate

SkipLine ==
    /\ idx < Len(lines) /\ ~StartsWith(NextLine, "@@")
    /\ \/ currentHunk = null
       \/ ~(StartsWith(NextLine, "+") \/ StartsWith(NextLine, "-")
            \/ StartsWith(NextLine, " ") \/ NextLine = "")
    /\ Iterate

ReturnHunks ==
    /\ pcParse = "loop"
    /\ idx = Len(lines)
    /\ hunks' = ParseReturn(ParserState)
    /\ pcParse' = "returned"
    /\ UNCHANGED <<lines, idx, currentHunk, oldLineNum, newLineNum, panelVars, serviceVars,
                   templateVars>>

NextParse ==
    \/ StartHunk
    \/ PushAddition
    \/ PushDeletion
    \/ PushContext
    \/ SkipLine
    \/ ReturnHunks

SpecParse == InitParse /\ [][NextParse]_vars

---------------------------------------------------------------------------
(* Successive calls of parseDiff on one DiffWebviewProvider *)

\* the line sequences the provider is asked to parse
CallInputs ==
    {<<"">>,
     <<"@@ bad @@", "+line2-modified">>,
     <<" line1", "@@ -5 +7 @@", "-line2", "+line2-modified">>,
     Scenario7}

\* locals that keep the counters the previous call ended with
CallEntry_keepsCounters(previous) ==
    [ParseStart EXCEPT !.oldLineNum = previous.oldLineNum,
                       !.newLineNum = previous.newLineNum]

\* the locals at the entry of a call made after a call that ended with the
\* locals previous: hunks, currentHunk and the counters are declared in
\* the method body
CallEntry(previous) == ParseStart

InitCalls ==
    /\ lines \in CallInputs
    /\ idx = 0
    /\ hunks = ParseStart.hunks
    /\ currentHunk = ParseStart.currentHunk
    /\ oldLineNum = ParseStart.oldLineNum
    /\ newLineNum = ParseStart.newLineNum
    /\ pcParse = "loop"
    /\ store = <<>>
    /\ clock = 0
    /\ mode = "branch"
    /\ baseRef = ""
    /\ compareRef = ""
    /\ panelMode = "none"
    /\ fileDiffs = <<>>
    /\ overlay = <<>>
    /\ html = <<>>
    /\ commentKeys = {}
    /\ returned = [op |-> "parseDiff", results |-> {}]
    /\ title = ""
    /\ posted = <<>>
    /\ running = {}
    /\ templates = DefaultTemplates
    /\ activeTemplate = "simple"

\* the caller takes the returned hunks, and parseDiff is called again
CallParseDiff ==
    /\ pcParse = "returned"
    /\ returned' = [op |-> "parseDiff",
                    results |-> returned.results \cup {[lines |-> lines, hunks |-> hunks]}]
    /\ lines' \in CallInputs
    /\ idx' = 0
    /\ hunks' = CallEntry(ParserState).hunks
    /\ currentHunk' = CallEntry(ParserState).currentHunk
    /\ oldLineNum' = CallEntry(ParserState).oldLineNum
    /\ newLineNum' = CallEntry(ParserState).newLineNum
    /\ pcParse' = "loop"
    /\ UNCHANGED <<panelVars, posted, running, templateVars>>

NextCalls ==
    \/ NextParse
    \/ CallParseDiff

SpecCalls == InitCalls /\ [][NextCalls]_vars

---------------------------------------------------------------------------
(* What git reports: the inputs of the diff panel *)

\* b replaced by c on line 2
DiffModify ==
    <<"diff --git a/f b/f", "index 1a2b..3c4d 100644", "--- a/f", "+++ b/f",
      "@@ -1,2 +1,2 @@", " a", "-b", "+c", "">>

\* c replaced by d on line 2, on top of DiffModify
DiffModifyAgain ==
    <<"diff --git a/f b/f", "index 3c4d..5e6f 100644", "--- a/f", "+++ b/f",
      "@@ -1,2 +1,2 @@", " a", "-c", "+d", "">>

\* the file with the two lines a, b deleted
DiffDeleteFile ==
    <<"diff --git a/f b/f", "deleted file mode 100644", "index 1a2b..0000",
      "--- a/f", "+++ /dev/null", "@@ -1,2 +0,0 @@", "-a", "-b", "">>

\* the line "-- x" replaced by the line "++y" on line 3
DiffMarkers ==
    <<"diff --git a/f b/f", "index 1a2b..7a8b 100644", "--- a/f", "+++ b/f",
      "@@ -3 +3 @@", "--- x", "+++y", "">>

StagedTexts == {EmptyText, DiffModify, DiffMarkers}
UnstagedTexts == {EmptyText, DiffModify, DiffModifyAgain, DiffDeleteFile, DiffMarkers}

\* the unstaged text is a diff against the index the staged text produced
ConsistentTree(wt) ==
    /\ wt.staged = EmptyText => wt.unstaged /= DiffModifyAgain
    /\ wt.staged = DiffModify => wt.unstaged \in {EmptyText, DiffModifyAgain}
    /\ wt.staged = DiffMarkers => wt.unstaged = EmptyText

WorkTrees ==
    {wt \in [staged : StagedTexts, unstaged : UnstagedTexts, untracked : BOOLEAN] :
        ConsistentTree(wt)}

\* what getDiffFiles and getFileDiff report for a pair of refs
BranchDiffs ==
    {<<>>,
     <<[path |-> TrackedPath, content |-> DiffModify, insertions |-> 1, deletions |-> 1]>>,
     <<[path |-> TrackedPath, content |-> DiffDeleteFile, insertions |-> 0, deletions |-> 2]>>,
     <<[path |-> TrackedPath, content |-> DiffMarkers, insertions |-> 1, deletions |-> 1]>>}

LineTypes == {"addition", "deletion", "context"}

---------------------------------------------------------------------------
(* difff.viewDiff and the message handlers of its panel *)

\* The parser variables, unused by the panel.
ParserIdle ==
    /\ lines = <<>>
    /\ idx = 0
    /\ hunks = <<>>
    /\ currentHunk = null
    /\ oldLineNum = 0
    /\ newLineNum = 0
    /\ pcParse = "idle"

\* refreshWebviewContent() over the files `files` and the stored comments
\* `all`, with the explorer's refs base and compare
Refresh(files, all, pmode, hash, base, compare) ==
    /\ overlay' = CommentsMap(files, all, pmode, hash, base, compare)
    /\ html' = RenderPanel(files, CommentsMap(files, all, pmode, hash, base, compare))

\* difff.viewDiff that fetches and creates the panel whatever the refs are
ViewDiff_withoutRefs(m, base, compare, trees, branches, hashes) ==
    \/ /\ m = "working"
       /\ \E wt \in trees, hash \in hashes :
             /\ fileDiffs' = WorkingFileDiffs(wt)
             /\ Refresh(WorkingFileDiffs(wt), store, "working", hash, base, compare)
       /\ panelMode' = "working"
       /\ title' = "Diff: Working Directory Changes"
    \/ /\ m = "branch"
       /\ \E bd \in branches :
             /\ fileDiffs' = BranchFileDiffs(bd)
             /\ Refresh(BranchFileDiffs(bd), store, "branch", HeadHash, base, compare)
       /\ panelMode' = "branch"
       /\ title' = "Diff: " \o base \o " → " \o compare

\* difff.viewDiff with the explorer in mode m with refs base and compare:
\* fetch the files, create the panel, refreshWebviewContent().  In branch
\* mode the command returns when a ref is missing.
ViewDiff(m, base, compare, trees, branches, hashes) ==
    \/ /\ m = "working"
       /\ \E wt \in trees, hash \in hashes :
             /\ fileDiffs' = WorkingFileDiffs(wt)
             /\ Refresh(WorkingFileDiffs(wt), store, "working", hash, base, compare)
       /\ panelMode' = "working"
       /\ title' = "Diff: Working Directory Changes"
    \/ /\ m = "branch"
       /\ IsSet(base) /\ IsSet(compare)
       /\ \E bd \in branches :
             /\ fileDiffs' = BranchFileDiffs(bd)
             /\ Refresh(BranchFileDiffs(bd), store, "branch", HeadHash, base, compare)
       /\ panelMode' = "branch"
       /\ title' = "Diff: " \o base \o " → " \o compare

\* the command difff.viewDiff run by the user
ViewDiffCommand(trees, branches, hashes) ==
    /\ ViewDiff(mode, baseRef, compareRef, trees, branches, hashes)
    /\ UNCHANGED <<parseVars, templateVars, serviceVars, store, clock, mode, baseRef, compareRef,
                   commentKeys>>

\* isReadyForDiff() of the explorer
IsReadyForDiff(m, base, compare) == m = "working" \/ (IsSet(base) /\ IsSet(compare))

\* the command difff.refresh: difff.viewDiff when the explorer is ready
RefreshCommand(trees, branches, hashes) ==
    /\ IsReadyForDiff(mode, baseRef, compareRef)
    /\ ViewDiffCommand(trees, branches, hashes)

\* "reload": refreshWebviewContent(true).  In a branch panel the files are
\* fetched again only when both refs of the explorer are set.
Reload(trees, branches, hashes) ==
    /\ \/ /\ panelMode = "working"
          /\ \E wt \in trees, hash \in hashes :
                /\ fileDiffs' = WorkingFileDiffs(wt)
                /\ Refresh(WorkingFileDiffs(wt), store, panelMode, hash, baseRef, compareRef)
       \/ /\ panelMode = "branch"
          /\ \E bd \in branches :
                LET current == IF IsSet(baseRef) /\ IsSet(compareRef)
                               THEN BranchFileDiffs(bd) ELSE fileDiffs
                IN  /\ fileDiffs' = current
                    /\ Refresh(current, store, panelMode, HeadHash, baseRef, compareRef)
    /\ UNCHANGED <<parseVars, templateVars, serviceVars, store, clock, mode, baseRef, compareRef,
                   panelMode, title, commentKeys>>

---------------------------------------------------------------------------
(* The renderer on every diff git can report, over a given store *)

WorkingContext == [baseRef |-> HeadHash, compareRef |-> "working"]
FallbackContext == [baseRef |-> "HEAD", compareRef |-> "working"]
BranchContext == [baseRef |-> "HEAD", compareRef |-> "main"]

MaxAnchorLine == 3

\* a comment stored at time now
StoredComment(filePath, lineNumber, lineType, context, now) ==
    [id |-> GenerateId(now, "k3x9"),
     filePath |-> filePath,
     lineNumber |-> lineNumber,
     lineType |-> lineType,
     content |-> "note",
     author |-> CurrentUser,
     timestamp |-> now,
     baseRef |-> context.baseRef,
     compareRef |-> context.compareRef]

\* the stores the renderer is run over: empty, one comment, and two
\* comments on one line made in a branch and in a working-directory context
RenderStores ==
    {<<>>}
    \cup {<<StoredComment(p, n, t, c, 0)>> :
            p \in {TrackedPath, UntrackedPath}, n \in 1..MaxAnchorLine, t \in LineTypes,
            c \in {WorkingContext, FallbackContext, BranchContext}}
    \cup {<<StoredComment(TrackedPath, n, t, BranchContext, 0),
            StoredComment(TrackedPath, n, t, c, 1)>> :
            n \in 1..MaxAnchorLine, t \in LineTypes,
            c \in {WorkingContext, FallbackContext}}

InitRender ==
    /\ ParserIdle
    /\ store \in RenderStores
    /\ clock = 0
    /\ mode \in {"branch", "working"}
    /\ baseRef = BranchContext.baseRef
    /\ compareRef = BranchContext.compareRef
    /\ panelMode = "none"
    /\ fileDiffs = <<>>
    /\ overlay = <<>>
    /\ html = <<>>
    /\ commentKeys = GetCommentKeys(store)
    /\ returned = NoCall
    /\ title = ""
    /\ posted = <<>>
    /\ running = {}
    /\ templates = DefaultTemplates
    /\ activeTemplate = "simple"

\* difff.jumpToComment(comment) for an item of the comment explorer:
\* setMode, in branch mode setRefs with the comment's refs, difff.viewDiff
JumpToComment(trees, branches, hashes) ==
    \E k \in 1..Len(store) :
        /\ returned' = [op |-> "jumpToComment", comment |-> store[k]]
        /\ IF store[k].compareRef = "working"
           THEN /\ mode' = "working"
                /\ UNCHANGED <<baseRef, compareRef>>
                /\ ViewDiff("working", baseRef, compareRef, trees, branches, hashes)
           ELSE /\ mode' = "branch"
                /\ baseRef' = store[k].baseRef
                /\ compareRef' = store[k].compareRef
                /\ IF IsSet(store[k].baseRef) /\ IsSet(store[k].compareRef)
                   THEN ViewDiff("branch", store[k].baseRef, store[k].compareRef,
                                 trees, branches, hashes)
                   ELSE UNCHANGED <<panelMode, title, fileDiffs, overlay, html>>
        /\ UNCHANGED <<parseVars, templateVars, store, clock, commentKeys, posted, running>>

NextRender ==
    \/ ViewDiffCommand(WorkTrees, BranchDiffs, CommitHashes)
    \/ Reload(WorkTrees, BranchDiffs, CommitHashes)

SpecRender == InitRender /\ [][NextRender]_vars

\* jumps from the comment explorer, over the same stores and diffs
NextJump == JumpToComment(WorkTrees, BranchDiffs, CommitHashes)

SpecJump == InitRender /\ [][NextJump]_vars

---------------------------------------------------------------------------
(* The extension: explorer, comment store and diff panel *)

MaxClock == 2
MaxComments == 2

\* the user's answers to the two quick picks over getAllRefs
BasePicks == {"main"}
ComparePicks == {"main", "feature"}

\* the random part generateId draws
Randoms == {"k3x9"}

\* what the user types in the comment box and in the edit box
NewContents == {"note"}
EditContents == {"fixed"}

\* the lines the user comments on
ClickTypes == {"addition", "deletion"}

\* a comment persisted without refs
LegacyComment ==
    [id |-> GenerateId(0, "a1b2"),
     filePath |-> TrackedPath,
     lineNumber |-> 2,
     lineType |-> "addition",
     content |-> "old",
     author |-> CurrentUser,
     timestamp |-> 0,
     baseRef |-> undefined,
     compareRef |-> undefined]

\* workspaceState at activation
PersistedStores == {<<>>, <<LegacyComment>>}

ModifiedTrees == {[staged |-> EmptyText, unstaged |-> DiffModify, untracked |-> FALSE]}
ModifiedBranches ==
    {<<[path |-> TrackedPath, content |-> DiffModify, insertions |-> 1, deletions |-> 1]>>}

Init ==
    /\ ParserIdle
    /\ store \in PersistedStores
    /\ clock = 0
    /\ mode = "branch"
    /\ baseRef = ""
    /\ compareRef = ""
    /\ panelMode = "none"
    /\ fileDiffs = <<>>
    /\ overlay = <<>>
    /\ html = <<>>
    /\ commentKeys = GetCommentKeys(store)
    /\ returned = NoCall
    /\ title = ""
    /\ posted = <<>>
    /\ running = {}
    /\ templates = DefaultTemplates
    /\ activeTemplate = "simple"

\* Date.now() advances
Tick ==
    /\ clock < MaxClock
    /\ clock' = clock + 1
    /\ UNCHANGED <<parseVars, templateVars, serviceVars, store, mode, baseRef, compareRef,
                   panelMode, title, fileDiffs, overlay, html, commentKeys>>

\* difff.selectMode(m): setMode, and viewDiff when the mode is working
SelectMode(m, trees, branches, hashes) ==
    /\ mode' = m
    /\ IF m = "working"
       THEN ViewDiff(m, baseRef, compareRef, trees, branches, hashes)
       ELSE UNCHANGED <<panelMode, title, fileDiffs, overlay, html>>
    /\ UNCHANGED <<parseVars, templateVars, serviceVars, store, clock, baseRef, compareRef,
                   commentKeys>>

\* setRefs(base, compare) and, when both are set, difff.viewDiff
SetRefsAndView(base, compare, trees, branches, hashes) ==
    /\ baseRef' = base
    /\ compareRef' = compare
    /\ IF IsSet(base) /\ IsSet(compare)
       THEN ViewDiff(mode, base, compare, trees, branches, hashes)
       ELSE UNCHANGED <<panelMode, title, fileDiffs, overlay, html>>

\* difff.selectBranches(type) with both quick picks answered
SelectBranches(type, trees, branches, hashes) ==
    /\ \/ /\ type = undefined
          /\ \E base \in BasePicks, compare \in ComparePicks :
                SetRefsAndView(base, compare, trees, branches, hashes)
       \/ /\ type = "base"
          /\ \E base \in BasePicks :
                SetRefsAndView(base, IF IsSet(compareRef) THEN compareRef ELSE "",
                               trees, branches, hashes)
       \/ /\ type = "compare"
          /\ IsSet(baseRef)
          /\ \E compare \in ComparePicks :
                SetRefsAndView(baseRef, compare, trees, branches, hashes)
    /\ UNCHANGED <<parseVars, templateVars, serviceVars, store, clock, mode, commentKeys>>

\* the rendered line rows of a file section, in display order
RECURSIVE RowsOf(_)
RowsOf(hs) == IF hs = <<>> THEN <<>> ELSE hs[1].rows \o RowsOf(Tail(hs))

\* the add-comment buttons of the panel: data-file-path, data-line-number,
\* data-line-type
Buttons ==
    UNION {{[filePath |-> html[k].path,
             lineNumber |-> RowsOf(html[k].hunks)[j].lineNumber,
             lineType |-> RowsOf(html[k].hunks)[j].type] :
               j \in {i \in 1..Len(RowsOf(html[k].hunks)) : RowsOf(html[k].hunks)[i].button}} :
           k \in 1..Len(html)}

\* the ids of the comments the panel shows
ShownIds ==
    UNION {UNION {{RowsOf(html[k].hunks)[j].thread[i].id :
                     i \in 1..Len(RowsOf(html[k].hunks)[j].thread)} :
                  j \in 1..Len(RowsOf(html[k].hunks))} :
           k \in 1..Len(html)}

\* after a change of the store: refreshWebviewContent() and
\* commentExplorerProvider.refresh()
StoreChanged(next, hash) ==
    /\ store' = next
    /\ Refresh(fileDiffs, next, panelMode, hash, baseRef, compareRef)
    /\ commentKeys' = GetCommentKeys(next)
    /\ UNCHANGED <<parseVars, templateVars, serviceVars, clock, mode, baseRef, compareRef,
                   panelMode, title, fileDiffs>>

\* the characters String.prototype.trim() removes, of those the user types
WhiteSpace == {" ", "\t", "\n"}

RECURSIVE TrimStart(_)
TrimStart(s) ==
    IF Len(s) > 0 /\ SubSeq(s, 1, 1) \in WhiteSpace
    THEN TrimStart(SubSeq(s, 2, Len(s))) ELSE s

RECURSIVE TrimEnd(_)
TrimEnd(s) ==
    IF Len(s) > 0 /\ SubSeq(s, Len(s), Len(s)) \in WhiteSpace
    THEN TrimEnd(SubSeq(s, 1, Len(s) - 1)) ELSE s

\* textarea.value.trim()
Trim(s) == TrimEnd(TrimStart(s))

\* what the user leaves in the textarea when pressing the button: nothing,
\* white space only, or one of contents with white space around it or not
TextareaValues(contents) ==
    {"", " ", " \n\t"} \cup contents \cup {" " \o c \o "\n" : c \in contents}

\* a script that posts whatever the trimmed textarea holds
Posts_always(content) == TRUE

\* submitComment and saveEditComment of the panel's script go on to
\* postMessage: if (!content) return
Posts(content) == content /= ""

\* submitComment of the panel's script and the handling of the message
\* "addComment" it posts
OnAddComment(hashes) ==
    /\ panelMode /= "none"
    /\ Len(store) < MaxComments
    /\ \E button \in Buttons, typed \in TextareaValues(NewContents), random \in Randoms,
          hash \in hashes, later \in hashes :
          /\ button.lineType \in ClickTypes
          /\ Posts(Trim(typed))
          /\ StoreChanged(AddComment(store, button.filePath, button.lineNumber,
                                     button.lineType, Trim(typed),
                                     IF panelMode = "working" THEN hash ELSE baseRef,
                                     IF panelMode = "working" THEN "working" ELSE compareRef,
                                     clock, random),
                          later)

\* saveEditComment of the panel's script and the handling of the message
\* "editComment" it posts
OnEditComment(hashes) ==
    /\ panelMode /= "none"
    /\ \E id \in ShownIds, typed \in TextareaValues(EditContents), hash \in hashes :
          /\ Posts(Trim(typed))
          /\ StoreChanged(UpdateComment(store, id, Trim(typed), clock), hash)

\* the panel's message "deleteComment" for a stored comment
OnDeleteComment(hashes) ==
    /\ panelMode /= "none"
    /\ \E id \in ShownIds, hash \in hashes :
          /\ Len(DeleteComment(store, id)) /= Len(store)
          /\ StoreChanged(DeleteComment(store, id), hash)

Next ==
    \/ Tick
    \/ \E m \in {"branch", "working"} :
          SelectMode(m, ModifiedTrees, ModifiedBranches, {HeadHash})
    \/ \E type \in {undefined, "base", "compare"} :
          SelectBranches(type, ModifiedTrees, ModifiedBranches, {HeadHash})
    \/ ViewDiffCommand(ModifiedTrees, ModifiedBranches, {HeadHash})
    \/ RefreshCommand(ModifiedTrees, ModifiedBranches, {HeadHash})
    \/ Reload(ModifiedTrees, ModifiedBranches, {HeadHash})
    \/ OnAddComment({HeadHash})
    \/ OnEditComment({HeadHash})
    \/ OnDeleteComment({HeadHash})

Spec == Init /\ [][Next]_vars

---------------------------------------------------------------------------
(* The methods of CommentService, CommentExplorerProvider and               *)
(* CommentTemplateProvider, called in any order                            *)

\* the diff contexts the callers pass
StoreContexts ==
    {[baseRef |-> "main", compareRef |-> "feature"],
     [baseRef |-> "main", compareRef |-> "main"],
     [baseRef |-> "feature", compareRef |-> "feature"]}

\* the random parts generateId draws
StoreRandoms == {"k3x9", "p7q2"}

\* the line numbers the callers pass
StoreLineNumbers == {1, 2}

\* an id no comment was given
MissingId == GenerateId(0, "zzzz")

\* the ids callers pass to updateComment and deleteComment
CallerIds == {store[k].id : k \in 1..Len(store)} \cup {MissingId}

\* the file rendered between the calls
RenderedFile ==
    [path |-> TrackedPath, content |-> DiffModify, additions |-> 1, deletions |-> 1]

InitStore ==
    /\ ParserIdle
    /\ store \in PersistedStores
    /\ clock = 0
    /\ mode = "branch"
    /\ baseRef = ""
    /\ compareRef = ""
    /\ panelMode = "none"
    /\ fileDiffs = <<>>
    /\ overlay = <<>>
    /\ html = <<>>
    /\ commentKeys = GetCommentKeys(store)
    /\ returned = NoCall
    /\ title = ""
    /\ posted = <<>>
    /\ running = {}
    /\ templates = DefaultTemplates
    /\ activeTemplate = "simple"

\* what a call leaves alone besides the store and the explorer's items
CallFrame ==
    UNCHANGED <<parseVars, templateVars, clock, mode, baseRef, compareRef, panelMode, title,
                fileDiffs, overlay, html, posted, running>>

\* a call that saves next as the stored array, and the refresh of the
\* comment explorer that follows every change of the store
Saved(next) ==
    /\ store' = next
    /\ commentKeys' = GetCommentKeys(next)
    /\ CallFrame

\* commentService.addComment(filePath, lineNumber, lineType, content,
\* baseRef, compareRef)
CallAddComment ==
    /\ Len(store) < MaxComments
    /\ \E lineNumber \in StoreLineNumbers, context \in StoreContexts,
          random \in StoreRandoms :
          /\ Saved(AddComment(store, TrackedPath, lineNumber, "addition", "note",
                              context.baseRef, context.compareRef, clock, random))
          /\ returned' = [op |-> "addComment",
                          filePath |-> TrackedPath,
                          lineNumber |-> lineNumber,
                          lineType |-> "addition",
                          content |-> "note",
                          baseRef |-> context.baseRef,
                          compareRef |-> context.compareRef]

\* commentService.updateComment(id, content)
CallUpdateComment ==
    \E id \in CallerIds :
        /\ Saved(UpdateComment(store, id, "fixed", clock))
        /\ returned' = [op |-> "updateComment", id |-> id, content |-> "fixed",
                        value |-> FindIndex(store, id) /= 0]

\* commentService.deleteComment(id)
CallDeleteComment ==
    \E id \in CallerIds :
        /\ Saved(IF Len(DeleteComment(store, id)) = Len(store)
                 THEN store ELSE DeleteComment(store, id))
        /\ returned' = [op |-> "deleteComment", id |-> id,
                        value |-> Len(DeleteComment(store, id)) /= Len(store)]

\* commentExplorerProvider.removeAllCommentsForKey(key) for an item of the
\* tree
CallRemoveAllCommentsForKey ==
    \E key \in commentKeys :
        /\ Saved(RemoveAllCommentsForKey(store, key))
        /\ returned' = [op |-> "removeAllCommentsForKey", key |-> key]

NextStore ==
    \/ Tick
    \/ CallAddComment
    \/ CallUpdateComment
    \/ CallDeleteComment
    \/ CallRemoveAllCommentsForKey

SpecStore == InitStore /\ [][NextStore]_vars

---------------------------------------------------------------------------
(* The reading methods, called in any order over a given store *)

\* the diff contexts the readers ask for
ReadContexts == {BranchContext, WorkingContext}

\* the refs of comments persisted with one ref missing, which
\* generateKeyFromComment names by the ref they have
LegacyContexts ==
    {[baseRef |-> "main", compareRef |-> undefined],
     [baseRef |-> undefined, compareRef |-> "main"]}

\* the stores the readers run over: up to two comments on the two files,
\* in every order of path and line number, and legacy comments
ReadStores ==
    {<<>>}
    \cup {<<StoredComment(p, n, "addition", c, 0)>> :
            p \in {TrackedPath, UntrackedPath}, n \in StoreLineNumbers, c \in ReadContexts}
    \cup {<<StoredComment(p, n, "addition", c, 0), StoredComment(q, m, "addition", d, 1)>> :
            p \in {TrackedPath, UntrackedPath}, n \in StoreLineNumbers, c \in ReadContexts,
            q \in {TrackedPath, UntrackedPath}, m \in StoreLineNumbers, d \in ReadContexts}
    \cup {<<StoredComment(TrackedPath, 1, "addition", c, 0)>> : c \in LegacyContexts}
    \cup {<<StoredComment(TrackedPath, 1, "addition", c, 0),
            StoredComment(TrackedPath, 2, "addition", d, 1)>> :
            c \in LegacyContexts, d \in LegacyContexts}

InitReads ==
    /\ ParserIdle
    /\ store \in ReadStores
    /\ clock = 0
    /\ mode = "branch"
    /\ baseRef = ""
    /\ compareRef = ""
    /\ panelMode = "none"
    /\ fileDiffs = <<>>
    /\ overlay = <<>>
    /\ html = <<>>
    /\ commentKeys = {}
    /\ returned = NoCall
    /\ title = ""
    /\ posted = <<>>
    /\ running = {}
    /\ templates = DefaultTemplates
    /\ activeTemplate = "simple"

\* what a reading call leaves alone besides the store and what it returns
ReadFrame ==
    UNCHANGED <<parseVars, templateVars, clock, mode, baseRef, compareRef, panelMode, title,
                fileDiffs, posted, running>>

\* commentService.getComments(filePath, baseRef, compareRef): filter
\* returns a new array
ReadGetComments ==
    \E filePath \in {TrackedPath, UntrackedPath}, context \in ReadContexts :
        /\ returned' = [op |-> "getComments",
                        value |-> GetComments(store, filePath, context.baseRef,
                                              context.compareRef)]
        /\ store' = store
        /\ UNCHANGED <<overlay, html, commentKeys>>
        /\ ReadFrame

\* getChildren() of the comment explorer: getCommentKeys()
ReadGetCommentKeys ==
    /\ commentKeys' = GetCommentKeys(store)
    /\ returned' = [op |-> "getCommentKeys", value |-> GetCommentKeys(store)]
    /\ store' = store
    /\ UNCHANGED <<overlay, html>>
    /\ ReadFrame

\* getChildren(key) of the comment explorer: getCommentsForKey(key)
ReadGetCommentsForKey ==
    \E key \in commentKeys :
        /\ returned' = [op |-> "getCommentsForKey", key |-> key,
                        value |-> GetCommentsForKey(store, key).value]
        /\ store' = GetCommentsForKey(store, key).stored
        /\ UNCHANGED <<overlay, html, commentKeys>>
        /\ ReadFrame

\* commentTemplateProvider.copyCommentsWithTemplate(baseRef, compareRef)
ReadCopyCommentsWithTemplate ==
    \E context \in ReadContexts :
        /\ returned' = [op |-> "copyCommentsWithTemplate",
                        value |-> CopyCommentsWithTemplate(store, context.baseRef,
                                                           context.compareRef).value]
        /\ store' = CopyCommentsWithTemplate(store, context.baseRef,
                                             context.compareRef).stored
        /\ UNCHANGED <<overlay, html, commentKeys>>
        /\ ReadFrame

\* a render of the diff: getComments for the file, then renderFileDiff with
\* parseDiff and renderHunks
ReadRender ==
    \E context \in ReadContexts :
        /\ overlay' = CommentsMap(<<RenderedFile>>, store, "branch", HeadHash,
                                  context.baseRef, context.compareRef)
        /\ html' = RenderPanel(<<RenderedFile>>, overlay')
        /\ returned' = [op |-> "renderFileDiff"]
        /\ store' = store
        /\ UNCHANGED commentKeys
        /\ ReadFrame

NextReads ==
    \/ ReadGetComments
    \/ ReadGetCommentKeys
    \/ ReadGetCommentsForKey
    \/ ReadCopyCommentsWithTemplate
    \/ ReadRender

SpecReads == InitReads /\ [][NextReads]_vars

---------------------------------------------------------------------------
(* One diff panel: its message handlers, suspended at their awaits and      *)
(* resumed in any order, while the explorer is used after it was opened     *)

\* the working tree the panel is opened on: a modified file and an
\* untracked file
PanelTrees == {[staged |-> EmptyText, unstaged |-> DiffModify, untracked |-> TRUE]}

\* workspaceState when the panel is opened
PanelStores ==
    {<<>>,
     <<StoredComment(TrackedPath, 2, "addition", WorkingContext, 0)>>,
     <<StoredComment(TrackedPath, 2, "addition",
                     [baseRef |-> "main", compareRef |-> "feature"], 0)>>}

InitPanel ==
    /\ ParserIdle
    /\ store \in PanelStores
    /\ clock = 0
    /\ mode \in {"branch", "working"}
    /\ baseRef = "main"
    /\ compareRef = "feature"
    /\ panelMode = "none"
    /\ fileDiffs = <<>>
    /\ overlay = <<>>
    /\ html = <<>>
    /\ commentKeys = GetCommentKeys(store)
    /\ returned = NoCall
    /\ title = ""
    /\ posted = <<>>
    /\ running = {}
    /\ templates = DefaultTemplates
    /\ activeTemplate = "simple"

\* what no handler of the panel assigns
PanelFrame == UNCHANGED <<parseVars, templateVars, mode, baseRef, compareRef, panelMode, title>>

\* difff.viewDiff creates the panel
OpenPanel ==
    /\ panelMode = "none"
    /\ ViewDiff(mode, baseRef, compareRef, PanelTrees, ModifiedBranches, {HeadHash})
    /\ UNCHANGED <<parseVars, templateVars, serviceVars, store, clock, mode, baseRef, compareRef,
                   commentKeys>>

\* difff.selectMode or difff.selectBranches run after the panel was opened:
\* setMode, setRefs; the panel their difff.viewDiff creates is another one
ExplorerChanged ==
    /\ panelMode /= "none"
    /\ \E m \in {"branch", "working"}, compare \in ComparePicks :
          /\ mode' = m
          /\ compareRef' = compare
    /\ UNCHANGED <<parseVars, templateVars, serviceVars, store, clock, baseRef, panelMode, title,
                   fileDiffs, overlay, html, commentKeys>>

\* a handler suspended at an await: the message's command, the await it is
\* at, refreshWebviewContent's currentFileDiffs and commentsMap, and the
\* message
Frame(command, pc, files, map, message) ==
    [command |-> command, pc |-> pc, files |-> files, map |-> map, message |-> message]

\* the message of a handler that needs none after its first await
NoMessage == [filePath |-> "", lineNumber |-> 0, lineType |-> "", content |-> ""]

\* the reply of the reload handler after `await refreshWebviewContent(true)`;
\* refreshWebviewContent catches what its git calls throw, so the
\* handler's catch branch with success: false is not taken
ReloadComplete(rendered) == [command |-> "reloadComplete", success |-> TRUE]

\* what a handler does once its refreshWebviewContent call has returned;
\* msgs are the messages posted so far, all the stored comments
Completed(command, rendered, all, msgs) ==
    /\ posted' = IF command = "reload" THEN Append(msgs, ReloadComplete(rendered)) ELSE msgs
    /\ commentKeys' = IF command = "reload" THEN commentKeys ELSE GetCommentKeys(all)

\* refreshWebviewContent from its loop over the files on, entered by the
\* handler of command with the others suspended: in branch mode the
\* comments are read and the html is written without an await, in working
\* mode every file costs an `await gitService.getCurrentCommitHash()`
ReadAndWrite(command, others, files, all, msgs) ==
    IF panelMode = "branch" \/ files = <<>>
    THEN /\ overlay' = CommentsMap(files, all, panelMode, HeadHash, baseRef, compareRef)
         /\ html' = RenderPanel(files, CommentsMap(files, all, panelMode, HeadHash,
                                                   baseRef, compareRef))
         /\ running' = others
         /\ Completed(command, TRUE, all, msgs)
    ELSE /\ running' = others \cup {Frame(command, "comments", files, <<>>, NoMessage)}
         /\ posted' = msgs
         /\ UNCHANGED <<overlay, html, commentKeys>>

\* the panel receives a message of the webview's script; Date.now() has
\* advanced since the last one
Received(command) ==
    /\ panelMode /= "none"
    /\ clock < MaxClock
    /\ clock' = clock + 1
    /\ \A frame \in running : frame.command /= command

\* "reload": refreshWebviewContent(true) up to its first await
ReceiveReload ==
    /\ Received("reload")
    /\ IF panelMode = "branch" /\ ~(IsSet(baseRef) /\ IsSet(compareRef))
       THEN ReadAndWrite("reload", running, fileDiffs, store, posted)
       ELSE /\ running' = running \cup {Frame("reload", "fetch", fileDiffs, <<>>, NoMessage)}
            /\ UNCHANGED <<overlay, html, posted, commentKeys>>
    /\ returned' = [op |-> "refreshWebviewContent",
                    rendered |-> panelMode = "branch" /\ ~(IsSet(baseRef) /\ IsSet(compareRef))]
    /\ UNCHANGED <<store, fileDiffs>>
    /\ PanelFrame

\* the git calls of refreshWebviewContent(true) return, with no files when
\* git fails (gitService catches its errors); then the comments are read
\* and the html is written, or the rest of the try block throws (the panel
\* was disposed, say) and the catch at its end shows the error
Fetched ==
    \E frame \in running :
        /\ frame.pc = "fetch"
        /\ \E wt \in PanelTrees \cup ModifiedTrees, bd \in ModifiedBranches \cup {<<>>} :
              fileDiffs' = IF panelMode = "working" THEN WorkingFileDiffs(wt)
                           ELSE BranchFileDiffs(bd)
        /\ \/ /\ ReadAndWrite("reload", running \ {frame}, fileDiffs', store, posted)
              /\ returned' = IF panelMode = "working" /\ fileDiffs' /= <<>> THEN returned
                             ELSE [op |-> "refreshWebviewContent", rendered |-> TRUE]
           \/ /\ running' = running \ {frame}
              /\ Completed("reload", FALSE, store, posted)
              /\ returned' = [op |-> "refreshWebviewContent", rendered |-> FALSE]
              /\ UNCHANGED <<overlay, html>>
        /\ UNCHANGED <<store, clock>>
        /\ PanelFrame

\* getCurrentCommitHash() returns in the loop over the files of a working
\* panel: the comments of the next file are read, and after the last file
\* the html is written
CommentsRead ==
    \E frame \in running :
        /\ frame.pc = "comments"
        /\ IF Len(frame.map) + 1 = Len(frame.files)
           THEN /\ overlay' = frame.map \o CommentsMap(<<frame.files[Len(frame.files)]>>, store,
                                                       panelMode, HeadHash, baseRef, compareRef)
                /\ html' = RenderPanel(frame.files, overlay')
                /\ running' = running \ {frame}
                /\ Completed(frame.command, TRUE, store, posted)
                /\ returned' = IF frame.command = "reload"
                               THEN [op |-> "refreshWebviewContent", rendered |-> TRUE]
                               ELSE returned
           ELSE /\ running' = (running \ {frame}) \cup
                       {Frame(frame.command, "comments", frame.files,
                              frame.map \o CommentsMap(<<frame.files[Len(frame.map) + 1]>>, store,
                                                       panelMode, HeadHash, baseRef, compareRef),
                              NoMessage)}
                /\ UNCHANGED <<overlay, html, posted, commentKeys, returned>>
        /\ UNCHANGED <<store, clock, fileDiffs>>
        /\ PanelFrame

\* commentService.addComment with the refs the handler computes, and
\* refreshWebviewContent() up to its first await
AddAndRefresh(others, message) ==
    /\ store' = AddComment(store, message.filePath, message.lineNumber, message.lineType,
                           message.content,
                           IF panelMode = "working" THEN HeadHash ELSE baseRef,
                           IF panelMode = "working" THEN "working" ELSE compareRef,
                           clock', "k3x9")
    /\ returned' = [op |-> "addComment"]
    /\ ReadAndWrite("addComment", others, fileDiffs, store', posted)
    /\ UNCHANGED fileDiffs
    /\ PanelFrame

\* "addComment", posted by submitComment for a line of the panel; a working
\* panel awaits getCurrentCommitHash() first
ReceiveAddComment ==
    /\ Received("addComment")
    /\ Len(store) < MaxComments
    /\ \E button \in Buttons :
          /\ button.lineType \in ClickTypes
          /\ IF panelMode = "working"
             THEN /\ running' = running \cup
                         {Frame("addComment", "hash", <<>>, <<>>,
                                [filePath |-> button.filePath, lineNumber |-> button.lineNumber,
                                 lineType |-> button.lineType, content |-> "note"])}
                  /\ returned' = [op |-> "getCurrentCommitHash"]
                  /\ UNCHANGED <<store, fileDiffs, overlay, html, posted, commentKeys>>
                  /\ PanelFrame
             ELSE AddAndRefresh(running, [filePath |-> button.filePath,
                                          lineNumber |-> button.lineNumber,
                                          lineType |-> button.lineType, content |-> "note"])

\* getCurrentCommitHash() returns in the addComment handler of a working
\* panel
HashReturned ==
    \E frame \in running :
        /\ frame.pc = "hash"
        /\ clock' = clock
        /\ AddAndRefresh(running \ {frame}, frame.message)

\* "editComment", posted by saveEditComment for a comment the panel shows
ReceiveEditComment ==
    /\ Received("editComment")
    /\ \E id \in ShownIds :
          /\ store' = UpdateComment(store, id, "fixed", clock')
          /\ returned' = [op |-> "updateComment"]
          /\ ReadAndWrite("editComment", running, fileDiffs, store', posted)
    /\ UNCHANGED fileDiffs
    /\ PanelFrame

\* the ids the script's deleteComment can post: it asks for no confirmation
\* and does not disable the button, so a comment's id can be posted again
\* before the panel is rendered without it
DeletableIds ==
    ShownIds \cup {posted[k].commentId :
                     k \in {j \in 1..Len(posted) : posted[j].command = "commentDeleted"}}

\* "deleteComment"
ReceiveDeleteComment ==
    /\ Received("deleteComment")
    /\ \E id \in DeletableIds :
          /\ returned' = [op |-> "deleteComment", id |-> id,
                          value |-> Len(DeleteComment(store, id)) /= Len(store)]
          /\ IF Len(DeleteComment(store, id)) /= Len(store)
             THEN /\ store' = DeleteComment(store, id)
                  /\ ReadAndWrite("deleteComment", running, fileDiffs, store',
                                  Append(posted, [command |-> "commentDeleted",
                                                  commentId |-> id]))
             ELSE UNCHANGED <<store, overlay, html, posted, running, commentKeys>>
    /\ UNCHANGED fileDiffs
    /\ PanelFrame

NextPanel ==
    \/ OpenPanel
    \/ ExplorerChanged
    \/ ReceiveReload
    \/ Fetched
    \/ CommentsRead
    \/ ReceiveAddComment
    \/ HashReturned
    \/ ReceiveEditComment
    \/ ReceiveDeleteComment

SpecPanel == InitPanel /\ [][NextPanel]_vars

---------------------------------------------------------------------------
(* The references offered for selection *)

\* the repositories getAllRefs is run on
Repositories ==
    [branches : {<<"main">>,
                 <<"feature", "main">>,
                 <<"main", "remotes/origin/HEAD", "remotes/origin/main">>,
                 <<"main", "remotes/origin/dev", "remotes/origin/main">>,
                 <<"main", "remotes/origin/main", "remotes/upstream/dev">>},
     tags : {<<>>, <<"v1.0">>, <<"main", "v1.0">>},
     commits : {<<>>,
                <<[hash |-> "4f2a9c1d03b7", message |-> "Fix parser - part 2"],
                  [hash |-> "0c5e77a9f1d2", message |-> "Initial commit"]>>}]

InitRefs ==
    /\ ParserIdle
    /\ store = <<>>
    /\ clock = 0
    /\ mode = "branch"
    /\ baseRef = ""
    /\ compareRef = ""
    /\ panelMode = "none"
    /\ fileDiffs = <<>>
    /\ overlay = <<>>
    /\ html = <<>>
    /\ commentKeys = {}
    /\ returned = NoCall
    /\ title = ""
    /\ posted = <<>>
    /\ running = {}
    /\ templates = DefaultTemplates
    /\ activeTemplate = "simple"

\* difff.selectBranches: gitService.getAllRefs()
CallGetAllRefs ==
    /\ \E repo \in Repositories :
          returned' = [op |-> "getAllRefs", repo |-> repo, value |-> GetAllRefs(repo)]
    /\ UNCHANGED <<parseVars, templateVars, panelVars, posted, running>>

\* getDiffFiles or getFileDiff with an entry the user picked: parseRef
CallParseRef ==
    /\ returned.op = "getAllRefs"
    /\ \E k \in 1..Len(returned.value) :
          returned' = [op |-> "parseRef", repo |-> returned.repo, ref |-> returned.value[k],
                       value |-> ParseRef(returned.value[k].label)]
    /\ UNCHANGED <<parseVars, templateVars, panelVars, posted, running>>

NextRefs ==
    \/ CallGetAllRefs
    \/ CallParseRef

SpecRefs == InitRefs /\ [][NextRefs]_vars

---------------------------------------------------------------------------
(* The comment templates *)

\* what the user enters in the input boxes of createNewTemplate and
\* difff.editTemplate
TemplateNames == {"Mine"}
TemplateFormats == {"{{filePath}}:{{lineNumber}} - {{content}}"}

InitTemplates ==
    /\ ParserIdle
    /\ store = <<StoredComment(TrackedPath, 2, "addition", WorkingContext, 0)>>
    /\ clock = 0
    /\ mode = "branch"
    /\ baseRef = ""
    /\ compareRef = ""
    /\ panelMode = "none"
    /\ fileDiffs = <<>>
    /\ overlay = <<>>
    /\ html = <<>>
    /\ commentKeys = GetCommentKeys(store)
    /\ returned = NoCall
    /\ title = ""
    /\ posted = <<>>
    /\ running = {}
    /\ templates = DefaultTemplates
    /\ activeTemplate = "simple"

\* what the template commands leave alone
TemplateFrame ==
    UNCHANGED <<parseVars, store, mode, baseRef, compareRef, panelMode, fileDiffs, overlay, html,
                commentKeys, title, posted, running>>

\* difff.createTemplate: createNewTemplate, addTemplate. The name and the
\* format are typed in two input boxes, so Date.now() has advanced since
\* the last template was added
CallAddTemplate ==
    /\ clock < MaxClock
    /\ clock' = clock + 1
    /\ \E name \in TemplateNames, format \in TemplateFormats :
          templates' = AddTemplate(templates, name, format, clock')
    /\ returned' = [op |-> "addTemplate"]
    /\ UNCHANGED activeTemplate
    /\ TemplateFrame

\* difff.editTemplate on an item of the tree
CallEditTemplate ==
    /\ \E k \in 1..Len(templates), name \in TemplateNames, format \in TemplateFormats :
          /\ templates' = EditTemplate(templates, templates[k].id, name, format)
          /\ returned' = [op |-> "editTemplate", id |-> templates[k].id]
    /\ UNCHANGED <<clock, activeTemplate>>
    /\ TemplateFrame

\* difff.deleteTemplate on an item of the tree, confirmed
CallDeleteTemplate ==
    /\ \E k \in 1..Len(templates) :
          /\ templates' = DeleteTemplate(templates, templates[k].id)
          /\ returned' = [op |-> "deleteTemplate", id |-> templates[k].id]
    /\ UNCHANGED <<clock, activeTemplate>>
    /\ TemplateFrame

\* difff.selectTemplate on an item of the tree or of the quick pick
CallSetActiveTemplate ==
    /\ \E k \in 1..Len(templates) :
          /\ templates' = SetActiveTemplate(templates, templates[k].id)
          /\ activeTemplate' = templates[k].id
          /\ returned' = [op |-> "setActiveTemplate", id |-> templates[k].id]
    /\ UNCHANGED clock
    /\ TemplateFrame

\* formatComment(comment) on a stored comment
CallFormatComment ==
    /\ \E k \in 1..Len(store) :
          returned' = [op |-> "formatComment", comment |-> store[k],
                       value |-> FormatCommentWith(templates, store[k])]
    /\ UNCHANGED <<clock, templateVars>>
    /\ TemplateFrame

NextTemplates ==
    \/ CallAddTemplate
    \/ CallEditTemplate
    \/ CallDeleteTemplate
    \/ CallSetActiveTemplate
    \/ CallFormatComment

SpecTemplates == InitTemplates /\ [][NextTemplates]_vars

---------------------------------------------------------------------------
(* Properties of the parser, under SpecParse *)

IsOldSide(l) == l.type \in {"deletion", "context"}
IsNewSide(l) == l.type \in {"addition", "context"}
OldSide(h) == SelectSeq(h.lines, IsOldSide)
NewSide(h) == SelectSeq(h.lines, IsNewSide)

\* the old-side numbers of h are a, a+1, ... and its new-side numbers c, c+1, ...
NumberedFrom(h, a, c) ==
    /\ \A j \in 1..Len(OldSide(h)) : OldSide(h)[j].oldLineNum = a + j - 1
    /\ \A j \in 1..Len(NewSide(h)) : NewSide(h)[j].newLineNum = c + j - 1

IsPrefix(a, b) == Len(a) <= Len(b) /\ SubSeq(b, 1, Len(a)) = a

\* C1: in every returned hunk whose header matches `@@ -a[,b] +c[,d] @@`,
\* the old line numbers of the deletion and context lines are a, a+1, ...
\* in source order and the new line numbers of the addition and context
\* lines are c, c+1, ... in source order.
C1_LineNumberMonotonicity ==
    pcParse = "returned" =>
        \A k \in 1..Len(hunks) :
            LET declared == MatchAt(hunks[k].header, 1)
            IN  declared /= null =>
                    NumberedFrom(hunks[k], declared[1], declared[2])

C1_Witness ==
    /\ pcParse = "returned"
    /\ \E k \in 1..Len(hunks) :
          /\ MatchAt(hunks[k].header, 1) /= null
          /\ MatchAt(hunks[k].header, 1)[1] /= MatchAt(hunks[k].header, 1)[2]
          /\ Len(OldSide(hunks[k])) >= 2
          /\ Len(NewSide(hunks[k])) >= 2
          /\ k >= 2

\* C2: every emitted line has exactly the numbers its kind requires: an
\* addition a new number and no old number, a deletion an old number and no
\* new number, a context line both; there is no other kind.
C2_ClassificationCompleteness ==
    \A h \in {hunks[k] : k \in 1..Len(hunks)} \cup {currentHunk[k] : k \in 1..Len(currentHunk)} :
        \A j \in 1..Len(h.lines) :
            LET l == h.lines[j]
            IN  \/ l.type = "addition" /\ l.newLineNum /= Blank /\ l.oldLineNum = Blank
                \/ l.type = "deletion" /\ l.oldLineNum /= Blank /\ l.newLineNum = Blank
                \/ l.type = "context" /\ l.oldLineNum /= Blank /\ l.newLineNum /= Blank

C2_Witness ==
    /\ pcParse = "returned"
    /\ \E k \in 1..Len(hunks) :
          {hunks[k].lines[j].type : j \in 1..Len(hunks[k].lines)}
              = {"addition", "deletion", "context"}

\* The line the loop consumes in a step, classified as the spec's algorithm
\* classifies it inside an open hunk.
C3_Step ==
    LET L == lines[idx + 1]
        emitted == currentHunk'[1].lines[Len(currentHunk'[1].lines)]
        pushed == /\ currentHunk' /= null
                  /\ currentHunk'[1].header = currentHunk[1].header
                  /\ Len(currentHunk'[1].lines) = Len(currentHunk[1].lines) + 1
                  /\ SubSeq(currentHunk'[1].lines, 1, Len(currentHunk[1].lines))
                         = currentHunk[1].lines
                  /\ hunks' = hunks
    IN  (idx' = idx + 1 /\ currentHunk /= null /\ ~StartsWith(L, "@@")) =>
          /\ StartsWith(L, "+") =>
                /\ pushed
                /\ emitted.type = "addition" /\ L = "+" \o emitted.content
                /\ emitted.newLineNum = newLineNum /\ emitted.oldLineNum = Blank
                /\ newLineNum' = newLineNum + 1 /\ oldLineNum' = oldLineNum
          /\ StartsWith(L, "-") =>
                /\ pushed
                /\ emitted.type = "deletion" /\ L = "-" \o emitted.content
                /\ emitted.oldLineNum = oldLineNum /\ emitted.newLineNum = Blank
                /\ oldLineNum' = oldLineNum + 1 /\ newLineNum' = newLineNum
          /\ (StartsWith(L, " ") \/ L = "") =>
                /\ pushed
                /\ emitted.type = "context"
                /\ L \in {"", " " \o emitted.content}
                /\ L = "" => emitted.content = ""
                /\ emitted.oldLineNum = oldLineNum /\ emitted.newLineNum = newLineNum
                /\ oldLineNum' = oldLineNum + 1 /\ newLineNum' = newLineNum + 1

\* The result the spec states for its concrete scenario.
C3_Scenario ==
    (pcParse = "returned" /\ lines = Scenario7) =>
        /\ Len(hunks) = 1
        /\ MatchAt(hunks[1].header, 1) = <<1, 1>>
        /\ hunks[1].lines =
             << [type |-> "context", content |-> "line1", oldLineNum |-> 1, newLineNum |-> 1],
                [type |-> "deletion", content |-> "line2", oldLineNum |-> 2, newLineNum |-> Blank],
                [type |-> "addition", content |-> "line2-modified", oldLineNum |-> Blank, newLineNum |-> 2],
                [type |-> "addition", content |-> "line3-new", oldLineNum |-> Blank, newLineNum |-> 3] >>

\* C3: parseDiff classifies and numbers every line inside an open hunk as
\* the spec's algorithm does (`+` addition with the new counter, `-`
\* deletion with the old counter, space or empty line context with both,
\* marker stripped, the counters of the sides advanced by one), and the
\* spec's five-line scenario yields the hunk the spec states.
C3_AgreesWithReference == [][C3_Step]_vars /\ []C3_Scenario

C3_Witness == pcParse = "returned" /\ lines = Scenario7 /\ Len(hunks) = 1

\* a header line the pattern does not match
Malformed(line) == StartsWith(line, "@@") /\ HeaderMatch(line) = null

\* the elements of ls from position k on, up to the next "@@" line
RECURSIVE BodyAfter(_, _)
BodyAfter(ls, k) ==
    IF k > Len(ls) \/ StartsWith(ls[k], "@@") THEN <<>>
    ELSE <<ls[k]>> \o BodyAfter(ls, k + 1)

Classifiable(line) ==
    StartsWith(line, "+") \/ StartsWith(line, "-") \/ StartsWith(line, " ") \/ line = ""

\* C4: a header that starts with `@@` but does not match the pattern loses
\* nothing: the hunks returned for the input that ends just before it are
\* a prefix of the returned hunks, and the malformed hunk follows them with
\* its verbatim header and the lines after it, numbered from the values
\* the counters had when the header was reached.
C4_NoLossOnMalformedHeader ==
    pcParse = "returned" =>
        \A k \in 1..Len(lines) :
            Malformed(lines[k]) =>
                LET before == SubSeq(lines, 1, k - 1)
                    n == Len(ParseDiff(before)) + 1
                IN  /\ IsPrefix(ParseDiff(before), hunks)
                    /\ Len(hunks) >= n
                    /\ hunks[n].header = lines[k]
                    /\ Len(hunks[n].lines)
                         = Len(SelectSeq(BodyAfter(lines, k + 1), Classifiable))
                    /\ NumberedFrom(hunks[n], ParseState(before).oldLineNum,
                                              ParseState(before).newLineNum)

C4_Witness ==
    /\ pcParse = "returned"
    /\ \E k \in 2..Len(lines) :
          /\ Malformed(lines[k])
          /\ Len(ParseDiff(SubSeq(lines, 1, k - 1))) = 1
          /\ ParseDiff(SubSeq(lines, 1, k - 1))[1].lines /= <<>>
          /\ ParseState(SubSeq(lines, 1, k - 1)).oldLineNum > 1
          /\ Len(hunks) = 2
          /\ hunks[2].lines /= <<>>

\* the elements of ls that begin with "@@", in order
HeaderLines(ls) == SelectSeq(ls, LAMBDA l : StartsWith(l, "@@"))

\* the headers of the hunks hs, in order
HeadersOf(hs) == [k \in 1..Len(hs) |-> hs[k].header]

\* the header of the open hunk, if any
OpenHeader == IF currentHunk = null THEN <<>> ELSE <<currentHunk[1].header>>

\* C12: parseDiff emits one hunk per input line that begins with `@@`, in
\* source order, with that line verbatim as its header; a hunk is appended
\* to the result when the next `@@` line or the end of the input is
\* reached, so an input without `@@` lines yields no hunk.
C12_OneHunkPerHeaderLine ==
    /\ pcParse = "loop" =>
          HeadersOf(hunks) \o OpenHeader = HeaderLines(SubSeq(lines, 1, idx))
    /\ pcParse = "returned" => HeadersOf(hunks) = HeaderLines(lines)

\* a returned parse of an input with two `@@` lines, the first of them not
\* matching the pattern, and a line before the first
C12_Witness ==
    /\ pcParse = "returned"
    /\ Len(hunks) = 2
    /\ hunks[1].header = "@@ bad @@"
    /\ hunks[2].header = "@@ -5 +7 @@"
    /\ ~StartsWith(lines[1], "@@")

\* line number k of ls produces no diff line: it is no `@@` line and it
\* either comes before the first `@@` line or has none of the three markers
\* and is not empty
Ignored(ls, k) ==
    /\ ~StartsWith(ls[k], "@@")
    /\ \/ HeaderLines(SubSeq(ls, 1, k - 1)) = <<>>
       \/ ~Classifiable(ls[k])

\* ls without its ignored lines
RECURSIVE WithoutIgnored(_, _)
WithoutIgnored(ls, k) ==
    IF k = 0 THEN <<>>
    ELSE WithoutIgnored(ls, k - 1) \o (IF Ignored(ls, k) THEN <<>> ELSE <<ls[k]>>)

\* C13: a line of an open hunk that starts with none of `+`, `-`, space
\* (not empty, not a `@@` line) and any line before the first header
\* produce no diff line and leave both counters unchanged: the step over
\* such a line changes nothing but the position, and the result is the
\* result for the input without these lines.
C13_Step ==
    (pcParse = "loop" /\ idx' = idx + 1 /\ Ignored(lines, idx + 1)) =>
        /\ hunks' = hunks
        /\ currentHunk' = currentHunk
        /\ oldLineNum' = oldLineNum
        /\ newLineNum' = newLineNum

C13_SameAsAbsent ==
    pcParse = "returned" => hunks = ParseDiff(WithoutIgnored(lines, Len(lines)))

C13_IgnoredLinesLeaveNoTrace == [][C13_Step]_vars /\ []C13_SameAsAbsent

\* a returned hunk whose addition is numbered 7 although an unrecognised
\* line precedes it in the hunk and a `+` line precedes the header
C13_Witness ==
    /\ pcParse = "returned"
    /\ Len(lines) = 4
    /\ lines[1] = "+line2-modified"
    /\ lines[2] = "@@ -5 +7 @@"
    /\ lines[3] = "\\ No newline at end of file"
    /\ lines[4] = "+line2-modified"
    /\ Len(hunks) = 1
    /\ Len(hunks[1].lines) = 1
    /\ hunks[1].lines[1].newLineNum = 7

\* the header with old start a, new start c and the count parts m and n
\* (",<count>", or nothing for an omitted count)
HeaderWith(a, m, c, n) ==
    "@@ -" \o NumberToString(a) \o m \o " +" \o NumberToString(c) \o n \o " @@"

\* the count parts tried
CountParts == {"", ",2", ",3"}

\* the start values of the headers of ParseAlphabet
StartPairs == {<<1, 1>>, <<5, 7>>}

\* ls with header g in the place of every header h
Recount(ls, h, g) == [k \in 1..Len(ls) |-> IF ls[k] = h THEN g ELSE ls[k]]

\* the lines of the hunks hs: kinds, contents and line numbers
LinesOf(hs) == [k \in 1..Len(hs) |-> hs[k].lines]

\* C14: the result depends on a header only through its two start values:
\* the input with other counts in its headers, or with the counts left
\* out, yields hunks with the same lines, kinds and line numbers, whatever
\* number of lines follows each header.
C14_HeaderCountsIrrelevant ==
    pcParse = "returned" =>
        \A p \in StartPairs, m \in CountParts, n \in CountParts :
            \A h \in {lines[k] : k \in 1..Len(lines)} :
                (\E i \in CountParts, j \in CountParts : h = HeaderWith(p[1], i, p[2], j)) =>
                    LinesOf(ParseDiff(Recount(lines, h, HeaderWith(p[1], m, p[2], n))))
                        = LinesOf(hunks)

\* a returned hunk whose header declares 2 old and 3 new lines and which
\* has three deletions
C14_Witness ==
    /\ pcParse = "returned"
    /\ lines = <<"@@ -1,2 +1,3 @@", "-line2", "-line2", "-line2">>
    /\ Len(hunks) = 1
    /\ Len(hunks[1].lines) = 3
    /\ hunks[1].lines[3].oldLineNum = 3
    /\ LinesOf(ParseDiff(Recount(lines, "@@ -1,2 +1,3 @@", "@@ -1 +1 @@"))) = LinesOf(hunks)

---------------------------------------------------------------------------
(* Properties of successive parses, under SpecCalls *)

\* C15: parsing is deterministic and stateless across calls: two calls of
\* parseDiff on the same line sequence, whatever calls are made between
\* them, return equal hunk sequences.
C15_SameInputSameHunks ==
    /\ \A r, q \in returned.results : r.lines = q.lines => r.hunks = q.hunks
    /\ pcParse = "returned" =>
          \A r \in returned.results : r.lines = lines => r.hunks = hunks

\* the second return for an input whose header does not match, with a
\* call on another input, which moved the counters, taken before it
C15_Witness ==
    /\ pcParse = "returned"
    /\ lines = <<"@@ bad @@", "+line2-modified">>
    /\ Len(hunks) = 1
    /\ \E r \in returned.results : r.lines = lines
    /\ \E r \in returned.results : r.lines = Scenario7

---------------------------------------------------------------------------
(* Properties of the references, under SpecRefs *)

\* C25: any two references offered for selection can be compared: for
\* every entry getAllRefs produces (HEAD, a local branch, a remote branch,
\* a tag listed as tag/<name>, a recent commit listed as <hash> - <message>)
\* parseRef returns a name that denotes the git object the entry was
\* produced for.
C25_ParsedRefDenotesItsObject ==
    returned.op = "parseRef" =>
        ResolveRevision(returned.repo, returned.value) = returned.ref.object

---------------------------------------------------------------------------
(* Properties of the comment keys, under SpecReads *)

\* C27: for every CommentKey getCommentKeys returns, over any stored
\* comments (legacy comments with a missing ref included), its commentCount
\* is the number of items getCommentsForKey returns for it and the number
\* of comments removeAllCommentsForKey removes for it.
C27_CountIsListedAndRemovable ==
    returned.op = "getCommentsForKey" =>
        /\ returned.key.commentCount = Len(returned.value)
        /\ returned.key.commentCount
              = Len(store) - Len(RemoveAllCommentsForKey(store, returned.key))

---------------------------------------------------------------------------
(* Properties of the comment templates, under SpecTemplates *)

\* C30: after any sequence of addTemplate, editTemplate, deleteTemplate and
\* setActiveTemplate calls at most one stored template has isActive = true,
\* and the stored active id, when set, is the id of an existing template,
\* the one with isActive = true, which getActiveTemplate returns and
\* formatComment uses.
C30_ActiveIdNamesTheActiveTemplate ==
    /\ Cardinality({k \in 1..Len(templates) : templates[k].isActive}) <= 1
    /\ activeTemplate /= undefined =>
          \E k \in 1..Len(templates) :
              /\ templates[k].id = activeTemplate
              /\ templates[k].isActive
              /\ GetActiveTemplate(templates) = <<templates[k]>>
              /\ returned.op = "formatComment" =>
                    returned.value = FormatCommentWith(<<templates[k]>>, returned.comment)

---------------------------------------------------------------------------
(* Properties of the store's methods, under SpecStore *)

\* this step is a call of the method op
IsCall(op) == returned'.op = op /\ (returned' /= returned \/ store' /= store)

\* comment is an element of comments
InSeq(comments, comment) == \E k \in 1..Len(comments) : comments[k] = comment

\* the elements of before that are in after, in the order of before
Survivors(before, after) == SelectSeq(before, LAMBDA comment : InSeq(after, comment))

Ids(comments) == [k \in 1..Len(comments) |-> comments[k].id]

\* comments restricted to the indices in kept
Restricted(comments, kept) ==
    LET F[k \in 0..Len(comments)] ==
            IF k = 0 THEN <<>>
            ELSE IF k \in kept THEN Append(F[k - 1], comments[k]) ELSE F[k - 1]
    IN  F[Len(comments)]

\* no two stored comments have the same id
IdsUnique ==
    \A i, j \in 1..Len(store) : i /= j => store[i].id /= store[j].id

\* a step gives no stored comment another id: the ids after it are the ids
\* before it without those of the removed comments, followed by the id of
\* the comment addComment appended
IdsKept ==
    \E kept \in SUBSET (1..Len(store)) :
        \/ Ids(store') = Restricted(Ids(store), kept)
        \/ /\ IsCall("addComment")
           /\ kept = 1..Len(store)
           /\ Len(store') = Len(store) + 1
           /\ SubSeq(Ids(store'), 1, Len(store)) = Ids(store)

\* an id, once assigned, is never changed
IdsNeverChange == [][IdsKept]_vars

\* C18: after any sequence of addComment, updateComment, deleteComment and
\* removeAllCommentsForKey calls no two stored comments have the same id,
\* and the id of a comment never changes once it is assigned.
C18_IdsUniqueAndStable == []IdsUnique /\ IdsNeverChange

\* C20: addComment(filePath, lineNumber, lineType, content, baseRef,
\* compareRef) appends exactly one comment with those anchor fields and
\* that content to the end of the store and leaves every comment stored
\* before unchanged and in its place; getComments(filePath, baseRef,
\* compareRef) then returns the matches it returned before followed by the
\* new comment.
C20_AddCommentAppendsOne ==
    [][IsCall("addComment") =>
          /\ Len(store') = Len(store) + 1
          /\ SubSeq(store', 1, Len(store)) = store
          /\ store'[Len(store')].filePath = returned'.filePath
          /\ store'[Len(store')].lineNumber = returned'.lineNumber
          /\ store'[Len(store')].lineType = returned'.lineType
          /\ store'[Len(store')].content = returned'.content
          /\ store'[Len(store')].baseRef = returned'.baseRef
          /\ store'[Len(store')].compareRef = returned'.compareRef
          /\ GetComments(store', returned'.filePath, returned'.baseRef, returned'.compareRef)
                = Append(GetComments(store, returned'.filePath, returned'.baseRef,
                                     returned'.compareRef),
                         store'[Len(store')])]_vars

\* after an addComment call: the new comment last, behind an earlier
\* comment of its file and context made on another line
C20_Witness ==
    /\ returned.op = "addComment"
    /\ Len(store) = 2
    /\ store[2].lineNumber = returned.lineNumber
    /\ store[1].lineNumber /= returned.lineNumber
    /\ GetComments(store, returned.filePath, returned.baseRef, returned.compareRef) = store

\* comment with the fields updateComment assigns set to those of edited
WithEditOf(comment, edited) ==
    [comment EXCEPT !.content = edited.content, !.timestamp = edited.timestamp]

---------------------------------------------------------------------------
(* Properties of the panel's message handlers, under SpecPanel *)

\* this step is the panel receiving the message deleteComment
DeleteReceived == returned'.op = "deleteComment" /\ clock' /= clock

\* C21: deleteComment(id) returns true exactly when a stored comment has
\* that id; afterwards no stored comment has the id and the other comments
\* are stored unchanged in their order; when it returns false the store is
\* unchanged, no commentDeleted message is sent and the panel is not
\* rendered again.
C21_DeleteReportsWhatItRemoved ==
    [][DeleteReceived =>
          /\ returned'.value <=> \E k \in 1..Len(store) : store[k].id = returned'.id
          /\ \A k \in 1..Len(store') : store'[k].id /= returned'.id
          /\ store' = SelectSeq(store, LAMBDA comment : comment.id /= returned'.id)
          /\ returned'.value =>
                posted' = Append(posted, [command |-> "commentDeleted",
                                          commentId |-> returned'.id])
          /\ ~returned'.value =>
                /\ store' = store
                /\ posted' = posted
                /\ running' = running
                /\ html' = html]_vars

\* a second deleteComment message for a comment already deleted was
\* answered false
C21_Witness ==
    /\ returned.op = "deleteComment"
    /\ ~returned.value
    /\ posted = <<[command |-> "commentDeleted", commentId |-> returned.id]>>
    /\ running = {}

---------------------------------------------------------------------------
(* Properties of the reading methods, under SpecReads *)

\* C17: reading never changes the stored comments: whatever getComments
\* calls, diff renders, comment-explorer listings (getCommentKeys,
\* getCommentsForKey) and copyCommentsWithTemplate calls are made, the
\* stored sequence, its order and every field included, stays what it was.
C17_ReadsLeaveStoreAlone == [][store' = store]_vars

\* getCommentsForKey returned two comments in another order than the one
\* they are stored in
C17_Witness ==
    /\ returned.op = "getCommentsForKey"
    /\ Len(returned.value) = 2
    /\ returned.value /= InContext(store, returned.key.baseRef, returned.key.compareRef)
    /\ returned.value[1] = store[2]

---------------------------------------------------------------------------
(* Properties of the comment overlay, under SpecRender *)

\* entry is the comments map entry of one getComments call; comment is in it
InOverlay(entry, comment) ==
    \E i \in 1..Len(entry.comments) : entry.comments[i] = comment

\* comment matches on the file and the base ref but not on the compare ref
NearMiss(entry, comment) ==
    /\ comment.filePath = entry.filePath
    /\ comment.baseRef = entry.baseRef
    /\ comment.compareRef /= entry.compareRef

\* C5: a stored comment is in the overlay computed for (filePath, baseRef,
\* compareRef) if and only if its filePath, baseRef and compareRef each
\* equal the requested value; the overlay holds stored comments only, and
\* a comment with the same baseRef and another compareRef is never in it.
C5_OverlayIffExactContext ==
    \A k \in 1..Len(overlay) :
        /\ \A j \in 1..Len(store) :
              InOverlay(overlay[k], store[j]) <=>
                  /\ store[j].filePath = overlay[k].filePath
                  /\ store[j].baseRef = overlay[k].baseRef
                  /\ store[j].compareRef = overlay[k].compareRef
        /\ \A i \in 1..Len(overlay[k].comments) :
              \E j \in 1..Len(store) : store[j] = overlay[k].comments[i]
        /\ \A j \in 1..Len(store) :
              NearMiss(overlay[k], store[j]) => ~InOverlay(overlay[k], store[j])

\* an overlay computed against (HEAD, working) over a store that holds a
\* comment of that file made against (HEAD, main), left out, and one
\* made against (HEAD, working), included
C5_Witness ==
    \E k \in 1..Len(overlay) :
        /\ overlay[k].compareRef = "working"
        /\ \E j \in 1..Len(store) :
              /\ NearMiss(overlay[k], store[j])
              /\ store[j].compareRef = "main"
              /\ ~InOverlay(overlay[k], store[j])
        /\ \E j \in 1..Len(store) : InOverlay(overlay[k], store[j])

\* the comments handed to the rendering of the k-th file of the panel
CommentsOfFile(k) == MapGet(overlay, html[k].path)

\* row shows comment in its thread
ShownUnder(row, comment) == \E c \in 1..Len(row.thread) : row.thread[c] = comment

\* C16: anchor matching tolerates no drift: a stored comment is displayed
\* under a diff line only if its lineNumber and lineType equal that line's
\* anchor exactly; while no line of the file has the anchor the comment is
\* displayed under no line, it stays in the store unchanged, and it is
\* displayed again as soon as a line with that exact anchor is there.
C16_ExactAnchor ==
    \A k \in 1..Len(html) :
        LET rows == RowsOf(html[k].hunks)
            comments == CommentsOfFile(k)
        IN  /\ \A j \in 1..Len(rows) :
                  \A c \in 1..Len(rows[j].thread) :
                      /\ rows[j].thread[c].lineNumber = rows[j].lineNumber
                      /\ rows[j].thread[c].lineType = rows[j].type
                      /\ \E i \in 1..Len(store) : store[i] = rows[j].thread[c]
            /\ \A i \in 1..Len(comments), j \in 1..Len(rows) :
                  ShownUnder(rows[j], comments[i]) <=>
                      /\ comments[i].lineNumber = rows[j].lineNumber
                      /\ comments[i].lineType = rows[j].type

C16_NoDriftTolerated == []C16_ExactAnchor /\ [][store' = store]_vars

\* a comment of the file's context that no line shows while a line of its
\* type one number away is displayed
C16_Witness ==
    \E k \in 1..Len(html) :
        LET rows == RowsOf(html[k].hunks)
            comments == CommentsOfFile(k)
        IN  \E i \in 1..Len(comments) :
                /\ \A j \in 1..Len(rows) : ~ShownUnder(rows[j], comments[i])
                /\ \E j \in 1..Len(rows) :
                      /\ rows[j].type = comments[i].lineType
                      /\ rows[j].lineNumber = comments[i].lineNumber + 1
                /\ \E j \in 1..Len(store) : store[j] = comments[i]

\* C26: a comment added through a diff panel is stored with the
\* (baseRef, compareRef) of the diff that panel displays, and every
\* re-render of the panel overlays the comments of that same context, even
\* when setRefs or setMode was called on the explorer after the panel was
\* opened. The panel displays the diff its title names.
C26_PanelKeepsItsContext ==
    [][/\ (returned'.op = "addComment" /\ Len(store') = Len(store) + 1) =>
             IF panelMode = "working"
             THEN /\ store'[Len(store')].baseRef = WorkingContext.baseRef
                  /\ store'[Len(store')].compareRef = WorkingContext.compareRef
             ELSE title = "Diff: " \o store'[Len(store')].baseRef \o " → "
                             \o store'[Len(store')].compareRef
       /\ (panelMode /= "none" /\ html' /= html) =>
             \A k \in 1..Len(overlay') :
                IF panelMode = "working"
                THEN /\ overlay'[k].baseRef = WorkingContext.baseRef
                     /\ overlay'[k].compareRef = WorkingContext.compareRef
                ELSE title = "Diff: " \o overlay'[k].baseRef \o " → " \o overlay'[k].compareRef
      ]_vars

\* C28: when handlers of one panel interleave at their awaits (a reload
\* running together with addComment, editComment or deleteComment, in a
\* branch or a working panel), then once all of them have completed the html
\* last written overlays, on every file, exactly the comments stored for
\* the context it was rendered with: no stored comment is missing and no
\* deleted comment is shown.
C28_LastHtmlShowsTheStoredComments ==
    (/\ panelMode /= "none"
     /\ running = {}
     /\ \E j \in 1..Len(posted) : posted[j].command = "reloadComplete") =>
        \A k \in 1..Len(overlay) :
            overlay[k].comments = GetComments(store, overlay[k].filePath, overlay[k].baseRef,
                                              overlay[k].compareRef)

\* C29: every reload is answered by exactly one reloadComplete, posted
\* when its handler completes, whose success is true exactly when the
\* fresh data was fetched and the panel was rendered again; when the reload
\* fails the reply carries success = false.
C29_ReloadCompleteTellsTheOutcome ==
    [][/\ ((\E frame \in running : frame.command = "reload")
           /\ (\A frame \in running' : frame.command /= "reload")) =>
              /\ posted' = Append(posted, posted'[Len(posted')])
              /\ posted'[Len(posted')].command = "reloadComplete"
              /\ posted'[Len(posted')].success <=> returned'.rendered
       /\ (/\ Len(posted') = Len(posted) + 1
           /\ posted'[Len(posted')].command = "reloadComplete") =>
              \E frame \in running : frame.command = "reload"
      ]_vars

---------------------------------------------------------------------------
(* Properties of the jump to a comment, under SpecJump *)

\* this step is difff.jumpToComment for the comment returned'.comment
Jumped == returned'.op = "jumpToComment" /\ returned' /= returned

\* C24: jumping to a comment navigates to its location: after
\* difff.jumpToComment(c) for a stored comment c the diff view it opened is
\* rendered with the diff context (baseRef, compareRef) of c, so that c is
\* among the comments overlaid on c.filePath; for comments made in branch
\* mode and for comments made in working-directory mode.
C24_JumpShowsTheComment ==
    [][Jumped =>
          \A k \in 1..Len(overlay') :
              /\ overlay'[k].baseRef = returned'.comment.baseRef
              /\ overlay'[k].compareRef = returned'.comment.compareRef
              /\ overlay'[k].filePath = returned'.comment.filePath =>
                    \E i \in 1..Len(overlay'[k].comments) :
                        overlay'[k].comments[i] = returned'.comment]_vars

---------------------------------------------------------------------------
(* Properties of the comment threads and the comment keys, under Spec *)

\* the time addComment created a comment: the Date.now() part of its id,
\* which no operation changes (updateComment overwrites the timestamp)
CreatedAt(comment) == comment.id[1]

\* the threads the panel shows: one per displayed line of each file
Threads ==
    UNION {{RowsOf(html[k].hunks)[j].thread : j \in 1..Len(RowsOf(html[k].hunks))} :
           k \in 1..Len(html)}

\* C6: the comments shown under one diff line are in ascending order of
\* creation time, whatever addComment, updateComment and deleteComment
\* operations the store went through.
C6_ThreadInCreationOrder ==
    \A thread \in Threads :
        \A i, j \in 1..Len(thread) :
            i < j => CreatedAt(thread[i]) <= CreatedAt(thread[j])

\* a thread of two comments created at different times whose first comment
\* was edited after the second one was made
C6_Witness ==
    \E thread \in Threads :
        /\ Len(thread) = 2
        /\ CreatedAt(thread[1]) < CreatedAt(thread[2])
        /\ thread[1].content \in EditContents
        /\ thread[1].timestamp > thread[2].timestamp

\* C19: every stored comment has non-empty content after any sequence of
\* addComment and editComment messages the extension handles: neither
\* adding nor editing leaves a stored comment whose content is empty.
C19_ContentNeverEmpty ==
    \A k \in 1..Len(store) : Len(store[k].content) > 0

\* a store with a comment that was added and then edited, and a comment
\* that was added
C19_Witness ==
    /\ \E k \in 1..Len(store) : store[k].content \in EditContents /\ store[k].timestamp > CreatedAt(store[k])
    /\ \E k \in 1..Len(store) : store[k].content \in NewContents

\* the title of the panel difff.viewDiff creates for two refs
BranchTitle(base, compare) == "Diff: " \o base \o " → " \o compare

\* C23: in branch mode the diff view opens by itself exactly when a
\* selection leaves both refs set: a selection that changes the refs opens
\* the panel of the new refs when both are non-empty and leaves the panel
\* alone otherwise, no branch panel exists while a ref is empty, and in
\* working mode isReadyForDiff is always true.
C23_OpensWhenBothRefsSet ==
    /\ [](panelMode = "branch" => IsSet(baseRef) /\ IsSet(compareRef))
    /\ [](IsReadyForDiff(mode, baseRef, compareRef) <=>
             (mode = "working" \/ (baseRef /= "" /\ compareRef /= "")))
    /\ [][(mode = "branch" /\ mode' = "branch"
           /\ (baseRef' /= baseRef \/ compareRef' /= compareRef)) =>
             IF baseRef' /= "" /\ compareRef' /= ""
             THEN /\ panelMode' = "branch"
                  /\ title' = BranchTitle(baseRef', compareRef')
                  /\ html' = RenderPanel(fileDiffs', overlay')
             ELSE UNCHANGED <<panelMode, title, fileDiffs, overlay, html>>]_vars

\* the panel of main and feature, opened by a selection, with the explorer
\* in branch mode
C23_Witness ==
    /\ mode = "branch"
    /\ panelMode = "branch"
    /\ title = BranchTitle("main", "feature")
    /\ baseRef = "main"
    /\ compareRef = "feature"
    /\ Len(html) = 1

\* the label the comment explorer is to give a comment; no label is
\* prescribed for a comment with only one ref set
LabelAsSpecified(comment, key) ==
    /\ comment.compareRef = "working" =>
          key = Template(comment.baseRef) \o " → Working Directory"
    /\ (IsSet(comment.baseRef) /\ IsSet(comment.compareRef)
        /\ comment.compareRef /= "working") =>
          key = comment.baseRef \o " → " \o comment.compareRef
    /\ (~IsSet(comment.baseRef) /\ ~IsSet(comment.compareRef)) => key = "Unknown"

\* the number of stored comments labelled key
Labelled(key) ==
    Cardinality({j \in 1..Len(store) : GenerateKeyFromComment(store[j]) = key})

\* C10: generateKeyFromComment labels a comment "<baseRef> → Working
\* Directory" when its compareRef is "working", "<baseRef> → <compareRef>"
\* when both refs are set to other values and "Unknown" when neither is
\* set; getCommentKeys has one item per label in use, whose count is the
\* number of stored comments with that label.
C10_KeysLabelAndCount ==
    /\ \A j \in 1..Len(store) :
          /\ LabelAsSpecified(store[j], GenerateKeyFromComment(store[j]))
          /\ \E item \in commentKeys : item.key = GenerateKeyFromComment(store[j])
    /\ \A item \in commentKeys :
          /\ item.commentCount = Labelled(item.key)
          /\ item.commentCount >= 1
    /\ \A item, other \in commentKeys : item.key = other.key => item = other

\* the explorer after comments were added in a working-directory panel
\* and in a branch panel: two keys, one comment each
C10_Witness ==
    /\ Len(store) = 2
    /\ \E item \in commentKeys :
          item.key = HeadHash \o " → Working Directory" /\ item.commentCount = 1
    /\ \E item \in commentKeys :
          item.key = "main → feature" /\ item.commentCount = 1

---------------------------------------------------------------------------
(* Properties of the renderer, under SpecRender *)

AllRows == UNION {{RowsOf(html[k].hunks)[j] : j \in 1..Len(RowsOf(html[k].hunks))} : k \in 1..Len(html)}

\* C7: within one rendered file no two displayed lines have the same
\* anchor (lineNumber, line type), so no stored comment is shown under
\* more than one line; staged-plus-unstaged texts included.
C7_AnchorIdentifiesOneLine ==
    \A k \in 1..Len(html) :
        LET rows == RowsOf(html[k].hunks)
        IN  \A i, j \in 1..Len(rows) :
                (i /= j) =>
                    /\ ~(rows[i].lineNumber = rows[j].lineNumber /\ rows[i].type = rows[j].type)
                    /\ \A c \in 1..Len(rows[i].thread) :
                          \A d \in 1..Len(rows[j].thread) :
                              rows[i].thread[c].id /= rows[j].thread[d].id

\* C8: the additions and deletions getWorkingDirectoryFiles attaches to a
\* file equal the numbers of addition and deletion lines parseDiff produces
\* from the file's diff text.
C8_CountingPathsAgree ==
    panelMode = "working" =>
        \A k \in 1..Len(fileDiffs) :
            /\ fileDiffs[k].additions = CountAdditions(ParseDiff(fileDiffs[k].content))
            /\ fileDiffs[k].deletions = CountDeletions(ParseDiff(fileDiffs[k].content))

\* C9: the anchor number of a rendered line is its new line number when it
\* is an addition or a context line and its old line number when it is a
\* deletion, also when a counter is 0.
C9_AnchorIsNumberOfOwnSide ==
    \A row \in AllRows :
        row.lineNumber = IF row.type \in {"addition", "context"}
                         THEN row.newLineNum ELSE row.oldLineNum

====
